---- MODULE Spec2Model ----
(****************************************************************************)
(* Block-template assembly (BlockAssembler, src/miner.cpp), the extra-nonce *)
(* utility, and the stake-miner thread lifecycle (MinePoS, PoSMiner,        *)
(* ProcessBlockFound) of USDGcoin, as state machines.                       *)
(*                                                                          *)
(* Spec        one CreateNewBlock call at a time, the selection loop of     *)
(*             addPackageTxs taken one iteration per step.                  *)
(* SpecCNB     whole CreateNewBlock calls repeated while the clock moves,   *)
(*             and IncrementExtraNonce on the templates they return.        *)
(* SpecStaking the staking threads: RPC workers calling MinePoS, the miner  *)
(*             threads, and blocks from peers that advance the tip.         *)
(* SpecMiner   the miner thread with shutdown, the interrupt of its sleeps  *)
(*             and both networks; SpecMinerFair adds scheduling fairness.   *)
(* SpecNonce   two generateBlocks callers of IncrementExtraNonce.           *)
(* SpecGBT     getblocktemplate (src/rpc/mining.cpp): proposal mode, the    *)
(*             long-poll and the cached template; SpecLongPoll is its       *)
(*             template mode under scheduling fairness.                     *)
(* SpecSubmit  submitblock and the validation events its listener hears.    *)
(* SpecGenerate generateBlocks with its nonce loop, against shutdown.       *)
(* SpecBlock   generateblock: the template, the given transactions and      *)
(*             RegenerateCommitments.                                       *)
(* SpecMinFee, SpecBudget, SpecStop: Spec over mempools of low-fee          *)
(*             transactions, of transactions that fill the block, and of    *)
(*             parents that pay nothing.                                    *)
(* SpecCutoff  Spec after a long run of budget failures.                    *)
(* SpecLocked  CreateNewBlock under LOCK2(cs_main, mempool.cs), beside the  *)
(*             threads that connect blocks and change the mempool.          *)
(* SpecLoopFair Spec with the selection loop scheduled until it ends.       *)
(****************************************************************************)
EXTENDS Integers, Sequences, FiniteSets, TLC

\* ------------------------------------------------------------------ bounds
NumTx == 3
MaxExtraNonce == 2

\* ------------------------------------------------------- program constants
WITNESS_SCALE_FACTOR == 4
MAX_BLOCK_WEIGHT == 4000000
MAX_BLOCK_SIGOPS_COST == 80000
DEFAULT_BLOCK_MIN_TX_FEE == 1000
CoinbaseReservedWeight == 4000
CoinbaseReservedSigOps == 400
MAX_CONSECUTIVE_FAILURES == 1000
StakeTimestampMask == 15

VARIABLES
    mempool,                        \* handle -> mempool entry (CTxMemPool::mapTx)
    nBlockMaxWeight,                \* BlockAssembler::nBlockMaxWeight, after the constructor's clamp
    tip,                            \* m_chain.Tip(): [hash, nHeight, mtp, segwit]
    now,                            \* GetAdjustedTime()
    searchInit,                     \* the static nLastCoinStakeSearchTime has been initialised
    nLastCoinStakeSearchTime,       \* static in CreateNewBlock
    nLastCoinStakeSearchInterval,   \* global
    m_last_block_num_txs,           \* BlockAssembler::m_last_block_num_txs (-1: unset)
    m_last_block_weight,            \* BlockAssembler::m_last_block_weight (-1: unset)
    hashPrevBlockStatic,            \* static hashPrevBlock of IncrementExtraNonce
    nExtraNonce,                    \* the caller's extra-nonce counter
    pc,                             \* position of the caller: idle, loop, returned, extranonce
    ba,                             \* the BlockAssembler object with its template
    call,                           \* the inputs of the last call: [pwallet, found, csTime]
    fPoSCancel,                     \* the caller's *pfPoSCancel
    ret,                            \* result of the last call: none, template, null, throw
    pre,                            \* process-wide state at the entry of the last call
    fEnableStaking,                 \* static std::atomic<bool> fEnableStaking
    threadStakeMiner,               \* the global std::thread: 0 (not joinable) or a thread id
    miners,                         \* the miner threads ever spawned, see MinerAtStart
    rpc,                            \* RPC worker -> [pc, thread, fGenerate]: position in the staking handler
    requests,                       \* RPC requests served so far
    handoffs,                       \* the latest ProcessNewBlock call made by ProcessBlockFound
    terminated,                     \* std::terminate was called
    strMintWarning,                 \* the global warning string of the miner
    fShutdown,                      \* ShutdownRequested()
    interruptNet,                   \* connman->interruptNet has been triggered
    network,                        \* Params().NetworkIDString()
    callers,                        \* caller of IncrementExtraNonce -> [pc, nExtraNonce, pblock]
    nonceWritten,                   \* what the callers wrote so far: [last, run]
    cs_main,                        \* the RPC worker that holds cs_main in getblocktemplate, or "free"
    g_best_block,                   \* the hash published with g_best_block_cv
    nTransactionsUpdated,           \* mempool.GetTransactionsUpdated()
    fRPCRunning,                    \* IsRPCRunning()
    gbtCache,                       \* the statics of getblocktemplate
    gbt,                            \* RPC worker -> its getblocktemplate call
    gbtResponse,                    \* what the step just taken returned to a getblocktemplate client
    submitCall,                     \* the submitblock call: its listener, the events heard, its result
    generateCall,                   \* the generateBlocks call: its counters and the hashes collected
    blockCall                       \* the generateblock call: its block before and after RegenerateCommitments

asmVars == <<mempool, nBlockMaxWeight, tip, now, searchInit, nLastCoinStakeSearchTime,
             nLastCoinStakeSearchInterval, m_last_block_num_txs, m_last_block_weight,
             hashPrevBlockStatic, nExtraNonce, pc, ba, call, fPoSCancel, ret, pre>>

stakeVars == <<fEnableStaking, threadStakeMiner, miners, rpc, requests, handoffs, terminated>>

envVars == <<strMintWarning, fShutdown, interruptNet, network>>

nonceVars == <<callers, nonceWritten>>

gbtVars == <<cs_main, g_best_block, nTransactionsUpdated, fRPCRunning, gbtCache, gbt,
             gbtResponse>>

callVars == <<submitCall, generateCall, blockCall>>

\* The state of the RPCs other than staking.
extVars == <<nonceVars, gbtVars, callVars>>

vars == <<asmVars, stakeVars, envVars, extVars>>

\* ----------------------------------------------------------------- mempool
Txs == 1..NumTx

\* The shapes of mempool transactions the model draws from.  nTxWeight is at
\* most WITNESS_SCALE_FACTOR * size (size is the virtual size); nLockTime is a
\* block height (0: no lock time).
TxProfiles ==
    { [size |-> 250,  nTxWeight |-> 1000, fee |-> 2500, modFee |-> 2500, sigops |-> 4,
       nTime |-> 5,  nLockTime |-> 0,  witness |-> FALSE],
      [size |-> 250,  nTxWeight |-> 997,  fee |-> 0,    modFee |-> 0,    sigops |-> 4,
       nTime |-> 35, nLockTime |-> 0,  witness |-> TRUE],
      [size |-> 1000, nTxWeight |-> 4000, fee |-> 5000, modFee |-> 6000, sigops |-> 39800,
       nTime |-> 5,  nLockTime |-> 11, witness |-> FALSE] }

\* Handles are numbered so that a parent has a larger handle than its child:
\* the hash order (the tie-break of every index) runs against the dependency
\* order.
ParentSets ==
    {[h \in Txs |-> {p \in Txs : <<h, p>> \in E}] :
        E \in SUBSET {e \in Txs \X Txs : e[2] > e[1]}}

RECURSIVE Closure(_, _, _)
Closure(par, S, n) ==
    IF n = 0 THEN S ELSE Closure(par, S \cup UNION {par[x] : x \in S}, n - 1)

RECURSIVE SetSum(_, _)
SetSum(f, S) ==
    IF S = {} THEN 0
    ELSE LET x == CHOOSE y \in S : TRUE IN f[x] + SetSum(f, S \ {x})

\* A mempool entry with the ancestor state the mempool caches for it
\* (nSizeWithAncestors, nModFeesWithAncestors, nSigOpCostWithAncestors,
\* nCountWithAncestors): the sums over the entry and all its ancestors.
MempoolEntry(par, pr, h) ==
    LET anc == Closure(par, par[h], NumTx)
        pkg == anc \cup {h}
    IN [parents |-> par[h], ancestors |-> anc,
        size |-> pr[h].size, nTxWeight |-> pr[h].nTxWeight, fee |-> pr[h].fee,
        modFee |-> pr[h].modFee, sigops |-> pr[h].sigops, nTime |-> pr[h].nTime,
        nLockTime |-> pr[h].nLockTime, witness |-> pr[h].witness,
        nSizeWithAncestors |-> SetSum([x \in Txs |-> pr[x].size], pkg),
        nModFeesWithAncestors |-> SetSum([x \in Txs |-> pr[x].modFee], pkg),
        nSigOpCostWithAncestors |-> SetSum([x \in Txs |-> pr[x].sigops], pkg),
        nCountWithAncestors |-> Cardinality(pkg)]

Mempools ==
    { [h \in Txs |-> MempoolEntry(par, pr, h)] : par \in ParentSets, pr \in [Txs -> TxProfiles] }

\* CTxMemPool::CalculateMemPoolAncestors with no limits: all in-mempool ancestors.
CalculateMemPoolAncestors(h) == mempool[h].ancestors

\* CTxMemPool::CalculateDescendants: the entry and all its in-mempool descendants.
CalculateDescendants(h) == {h} \cup {d \in Txs : h \in mempool[d].ancestors}

GetSizeWithAncestors(h) == mempool[h].nSizeWithAncestors
GetModFeesWithAncestors(h) == mempool[h].nModFeesWithAncestors
GetSigOpCostWithAncestors(h) == mempool[h].nSigOpCostWithAncestors
GetCountWithAncestors(h) == mempool[h].nCountWithAncestors

\* CTxMemPoolModifiedEntry(iter): a record seeded from the entry's ancestor state.
CTxMemPoolModifiedEntry(h) ==
    [iter |-> h,
     nSizeWithAncestors |-> GetSizeWithAncestors(h),
     nModFeesWithAncestors |-> GetModFeesWithAncestors(h),
     nSigOpCostWithAncestors |-> GetSigOpCostWithAncestors(h)]

\* a sorts before b in an ancestor_score index: higher ancestor fee rate first,
\* by cross-multiplication; ties by handle.
CompareTxMemPoolEntryByAncestorFee(a, b) ==
    LET f1 == a.nModFeesWithAncestors * b.nSizeWithAncestors
        f2 == b.nModFeesWithAncestors * a.nSizeWithAncestors
    IN IF f1 = f2 THEN a.iter < b.iter ELSE f1 > f2

\* The first record of a set of records in ancestor_score order.
FirstByAncestorScore(R) ==
    CHOOSE a \in R : \A b \in R \ {a} : CompareTxMemPoolEntryByAncestorFee(a, b)

RECURSIVE SortByAncestorScore(_)
SortByAncestorScore(R) ==
    IF R = {} THEN <<>>
    ELSE LET a == FirstByAncestorScore(R) IN <<a.iter>> \o SortByAncestorScore(R \ {a})

\* m_mempool.mapTx.get<ancestor_score>(): the handles in index order.
MapTxAncestorScore == SortByAncestorScore({CTxMemPoolModifiedEntry(h) : h \in Txs})

\* CFeeRate::GetFee(size) of the block minimum fee rate (satoshis per 1000 bytes).
BlockMinFee(size) == (DEFAULT_BLOCK_MIN_TX_FEE * size) \div 1000

\* ------------------------------------------------------------ transactions
NullHash == <<>>
NullTx == [kind |-> "null", h |-> 0, nTime |-> 0, scriptSig |-> <<>>, vout |-> "none"]
CoinbaseTx(nTime, scriptSig, vout) ==
    [kind |-> "coinbase", h |-> 0, nTime |-> nTime, scriptSig |-> scriptSig, vout |-> vout]
CoinStakeTx(nTime) ==
    [kind |-> "coinstake", h |-> 0, nTime |-> nTime, scriptSig |-> <<>>, vout |-> "stake"]
GetSharedTx(h) ==
    [kind |-> "tx", h |-> h, nTime |-> mempool[h].nTime, scriptSig |-> <<>>, vout |-> "pay"]

\* BlockMerkleRoot: a collision-free commitment to the transaction list.
BlockMerkleRoot(vtx) == <<"merkle", vtx>>

\* CBlock::IsProofOfStake: the second transaction is a coinstake.
IsProofOfStake(vtx) == Len(vtx) > 1 /\ vtx[2].kind = "coinstake"

Max(a, b) == IF a >= b THEN a ELSE b
Min(a, b) == IF a <= b THEN a ELSE b

\* ---------------------------------------------------------- BlockAssembler
\* The constructor's clamp of options.nBlockMaxWeight.
ClampBlockMaxWeight(optMaxWeight) ==
    Max(4000, Min(MAX_BLOCK_WEIGHT - 4000, optMaxWeight))

BlockMaxWeightOptions == {3000, 8500, 24000}

\* resetBlock, and the fresh template of CreateNewBlock.  tested is not a
\* member: it keeps what TestBlockValidity answered in the call, if asked.
resetBlock ==
    [inBlock |-> {}, nBlockWeight |-> CoinbaseReservedWeight,
     nBlockSigOpsCost |-> CoinbaseReservedSigOps, fIncludeWitness |-> FALSE,
     nBlockTx |-> 0, nFees |-> 0, nHeight |-> 0, nLockTimeCutoff |-> 0,
     vtx |-> <<>>, vTxFees |-> <<>>, vTxSigOpsCost |-> <<>>,
     nTime |-> 0, hashPrevBlock |-> NullHash, hashMerkleRoot |-> NullHash,
     nNonce |-> 0, nFlags |-> "pow", coinbaseTx |-> NullTx,
     mapModifiedTx |-> << >>, failedTx |-> {}, mi |-> 1, nConsecutiveFailed |-> 0,
     nPackagesSelected |-> 0, loop |-> "run", tested |-> "unasked"]

onlyUnconfirmed(b, testSet) == testSet \ b.inBlock

\* TestPackage; the variant compares the virtual size with the weight limit.
TestPackageUnscaled(b, packageSize, packageSigOpsCost) ==
    IF b.nBlockWeight + packageSize >= nBlockMaxWeight THEN FALSE
    ELSE IF b.nBlockSigOpsCost + packageSigOpsCost >= MAX_BLOCK_SIGOPS_COST THEN FALSE
    ELSE TRUE
TestPackage(b, packageSize, packageSigOpsCost) ==
    IF b.nBlockWeight + WITNESS_SCALE_FACTOR * packageSize >= nBlockMaxWeight THEN FALSE
    ELSE IF b.nBlockSigOpsCost + packageSigOpsCost >= MAX_BLOCK_SIGOPS_COST THEN FALSE
    ELSE TRUE

\* IsFinalTx(tx, nHeight, nLockTimeCutoff) for height lock times and non-final
\* input sequences.
IsFinalTx(h, nHeight) == mempool[h].nLockTime = 0 \/ mempool[h].nLockTime < nHeight

\* TestPackageTransactions.  The variant leaves the witness test out.
TestPackageTransactionsFinalOnly(b, package) ==
    \A it \in package : IsFinalTx(it, b.nHeight)

TestPackageTransactions(b, package) ==
    \A it \in package :
        /\ IsFinalTx(it, b.nHeight)
        /\ ~(~b.fIncludeWitness /\ mempool[it].witness)

\* AddToBlock; the variant adds the modified fee to nFees.
AddToBlockFeesNotSummed(b, iter) ==
    [b EXCEPT !.vtx = Append(@, GetSharedTx(iter)),
              !.vTxFees = Append(@, mempool[iter].fee),
              !.vTxSigOpsCost = Append(@, mempool[iter].sigops),
              !.nBlockWeight = @ + mempool[iter].nTxWeight,
              !.nBlockTx = @ + 1,
              !.nBlockSigOpsCost = @ + mempool[iter].sigops,
              !.nFees = @ + mempool[iter].modFee,
              !.inBlock = @ \cup {iter}]
AddToBlock(b, iter) ==
    [b EXCEPT !.vtx = Append(@, GetSharedTx(iter)),
              !.vTxFees = Append(@, mempool[iter].fee),
              !.vTxSigOpsCost = Append(@, mempool[iter].sigops),
              !.nBlockWeight = @ + mempool[iter].nTxWeight,
              !.nBlockTx = @ + 1,
              !.nBlockSigOpsCost = @ + mempool[iter].sigops,
              !.nFees = @ + mempool[iter].fee,
              !.inBlock = @ \cup {iter}]

\* The inner loop of UpdatePackagesForAdded for one added entry `it`.
UpdateDescendantsOf(it, alreadyAdded, map) ==
    LET descs == CalculateDescendants(it) \ alreadyAdded IN
    [d \in (DOMAIN map) \cup descs |->
        IF d \in descs
        THEN LET base == IF d \in DOMAIN map THEN map[d] ELSE CTxMemPoolModifiedEntry(d)
             IN [base EXCEPT !.nSizeWithAncestors = @ - mempool[it].size,
                             !.nModFeesWithAncestors = @ - mempool[it].modFee,
                             !.nSigOpCostWithAncestors = @ - mempool[it].sigops]
        ELSE map[d]]

RECURSIVE UpdatePackagesFold(_, _, _)
UpdatePackagesFold(todo, alreadyAdded, map) ==
    IF todo = {} THEN map
    ELSE LET it == CHOOSE x \in todo : TRUE
         IN UpdatePackagesFold(todo \ {it}, alreadyAdded,
                               UpdateDescendantsOf(it, alreadyAdded, map))

UpdatePackagesForAdded(alreadyAdded, map) ==
    UpdatePackagesFold(alreadyAdded, alreadyAdded, map)

\* The variant does not look into inBlock.
SkipMapTxEntryNotInBlock(b, it) ==
    it \in DOMAIN b.mapModifiedTx \/ it \in b.failedTx

SkipMapTxEntry(b, it) ==
    it \in DOMAIN b.mapModifiedTx \/ it \in b.inBlock \/ it \in b.failedTx

\* CompareTxIterByAncestorCount: fewer ancestors first, ties by handle.
RECURSIVE SortByAncestorCount(_)
SortByAncestorCount(S) ==
    IF S = {} THEN <<>>
    ELSE LET a == CHOOSE x \in S : \A y \in S \ {x} :
                     \/ GetCountWithAncestors(x) < GetCountWithAncestors(y)
                     \/ /\ GetCountWithAncestors(x) = GetCountWithAncestors(y)
                        /\ x < y
         IN <<a>> \o SortByAncestorCount(S \ {a})

\* The package in the iteration order of setEntries (by handle), not sorted.
RECURSIVE SortByHandle(_)
SortByHandle(S) ==
    IF S = {} THEN <<>>
    ELSE LET a == CHOOSE x \in S : \A y \in S : x <= y
         IN <<a>> \o SortByHandle(S \ {a})

\* SortForBlock; the variant keeps the iteration order of the set.
SortForBlockUnsorted(package) == SortByHandle(package)
SortForBlock(package) == SortByAncestorCount(package)

\* mapModifiedTx.erase(handle): no effect when the handle is not present.
EraseModified(map, h) == [d \in (DOMAIN map) \ {h} |-> map[d]]

\* The commit loop of addPackageTxs over the sorted entries.
RECURSIVE CommitEntries(_, _, _)
CommitEntries(b, sortedEntries, i) ==
    IF i > Len(sortedEntries) THEN b
    ELSE LET b1 == AddToBlock(b, sortedEntries[i])
         IN CommitEntries([b1 EXCEPT !.mapModifiedTx = EraseModified(@, sortedEntries[i])],
                          sortedEntries, i + 1)

\* The entries added for candidate iter: its mempool ancestors not yet in the
\* block, and iter itself.
\* The variant adds iter without its ancestors.
PackageEntriesAlone(b, iter) == {iter}

PackageEntries(b, iter) == onlyUnconfirmed(b, CalculateMemPoolAncestors(iter)) \cup {iter}

\* packageFees < blockMinFeeRate.GetFee(packageSize).  The variant never
\* finds a package below the rate.
BelowBlockMinFeeNever(packageFees, packageSize) == FALSE

BelowBlockMinFee(packageFees, packageSize) == packageFees < BlockMinFee(packageSize)

\* The first test of the loop body: the entry at mi is stale and is passed over.
SkipsEntry(b) ==
    /\ b.mi <= Len(MapTxAncestorScore)
    /\ SkipMapTxEntry(b, MapTxAncestorScore[b.mi])

\* fUsingModified: the best record of mapModifiedTx is the candidate when the
\* walk of mapTx is at its end, or when the record sorts before the entry at
\* mi.  The variant takes the entry at mi whenever there is one.
UsesModifiedAtEndOnly(b, atEnd, hasMod, modit) == atEnd
UsesModified(b, atEnd, hasMod, modit) ==
    IF atEnd THEN TRUE
    ELSE hasMod /\ CompareTxMemPoolEntryByAncestorFee(
                       modit, CTxMemPoolModifiedEntry(MapTxAncestorScore[b.mi]))

\* The candidate of an iteration that passes no entry over: the entry at mi,
\* or the best record of mapModifiedTx when mi is at the end or that record
\* has the higher score; with the package figures the tests read.
Candidate(b) ==
    LET order == MapTxAncestorScore
        atEnd == b.mi > Len(order)
        hasMod == DOMAIN b.mapModifiedTx # {}
        modit == FirstByAncestorScore({b.mapModifiedTx[d] : d \in DOMAIN b.mapModifiedTx})
        fUsingModified == UsesModified(b, atEnd, hasMod, modit)
        iter == IF fUsingModified THEN modit.iter ELSE order[b.mi]
    IN [iter |-> iter,
        fUsingModified |-> fUsingModified,
        packageSize |-> IF fUsingModified THEN modit.nSizeWithAncestors
                        ELSE GetSizeWithAncestors(iter),
        packageFees |-> IF fUsingModified THEN modit.nModFeesWithAncestors
                        ELSE GetModFeesWithAncestors(iter),
        packageSigOpsCost |-> IF fUsingModified THEN modit.nSigOpCostWithAncestors
                              ELSE GetSigOpCostWithAncestors(iter)]

\* A candidate that failed a test: one taken from mapModifiedTx is erased
\* there and remembered in failedTx.  The variant remembers every candidate.
RememberFailedAlways(b, iter, fUsingModified) ==
    [b EXCEPT !.mapModifiedTx = EraseModified(@, iter), !.failedTx = @ \cup {iter}]

\* A second variant remembers the candidate and leaves its record in place.
RememberFailedKeepsRecord(b, iter, fUsingModified) ==
    IF fUsingModified THEN [b EXCEPT !.failedTx = @ \cup {iter}] ELSE b

RememberFailed(b, iter, fUsingModified) ==
    IF fUsingModified
    THEN [b EXCEPT !.mapModifiedTx = EraseModified(@, iter), !.failedTx = @ \cup {iter}]
    ELSE b

\* nConsecutiveFailed > MAX_CONSECUTIVE_FAILURES && nBlockWeight >
\* nBlockMaxWeight - 4000: close to full and no success in a while.  The
\* variant gives up on the count alone.
GivesUpOnCountAlone(b) == b.nConsecutiveFailed > MAX_CONSECUTIVE_FAILURES
GivesUp(b) ==
    /\ b.nConsecutiveFailed > MAX_CONSECUTIVE_FAILURES
    /\ b.nBlockWeight > nBlockMaxWeight - 4000

\* One iteration of the while loop of addPackageTxs.  b.loop becomes "done"
\* on the early return and on the break, "assert" when the assertion fails.
addPackageTxsIteration(b) ==
    IF SkipsEntry(b) THEN [b EXCEPT !.mi = @ + 1]
    ELSE
    LET c == Candidate(b)
        iter == c.iter
        b1 == IF c.fUsingModified THEN b ELSE [b EXCEPT !.mi = @ + 1]
        bFail == RememberFailed(b1, iter, c.fUsingModified)
        ancestors == PackageEntries(b1, iter)
    IN
    IF iter \in b1.inBlock THEN [b1 EXCEPT !.loop = "assert"]
    ELSE IF BelowBlockMinFee(c.packageFees, c.packageSize) THEN [b1 EXCEPT !.loop = "done"]
    ELSE IF ~TestPackage(b1, c.packageSize, c.packageSigOpsCost) THEN
        LET b2 == [bFail EXCEPT !.nConsecutiveFailed = @ + 1] IN
        IF GivesUp(b2) THEN [b2 EXCEPT !.loop = "done"]
        ELSE b2
    ELSE IF ~TestPackageTransactions(b1, ancestors) THEN bFail
    ELSE
        LET b3 == CommitEntries([b1 EXCEPT !.nConsecutiveFailed = 0],
                                SortForBlock(ancestors), 1)
        IN [b3 EXCEPT !.nPackagesSelected = @ + 1,
                      !.mapModifiedTx = UpdatePackagesForAdded(ancestors, @)]

\* The condition of the while loop.
addPackageTxsRunning(b) ==
    /\ b.loop = "run"
    /\ (b.mi <= Len(MapTxAncestorScore) \/ DOMAIN b.mapModifiedTx # {})

\* GetMaxTransactionTime(pblock)
RECURSIVE MaxTimeFrom(_, _)
MaxTimeFrom(vtx, i) ==
    IF i > Len(vtx) THEN 0 ELSE Max(vtx[i].nTime, MaxTimeFrom(vtx, i + 1))
GetMaxTransactionTime(vtx) == MaxTimeFrom(vtx, 1)

\* UpdateTime(pblock, ...): the new nTime of the header at clock value t.
UpdateTime(nOldTime, t) ==
    LET nNewTime == Max(tip.mtp + 1, t)
    IN IF nOldTime < nNewTime THEN nNewTime ELSE nOldTime

\* now & ~nStakeTimestampMask
MaskTime(t) == t - (t % (StakeTimestampMask + 1))

\* ----------------------------------------------------------- CreateNewBlock
\* static int64_t nLastCoinStakeSearchTime = GetAdjustedTime(): the value the
\* static has in a call, initialised by the first call that reaches it.
LastCoinStakeSearchTime == IF searchInit THEN nLastCoinStakeSearchTime ELSE now

\* The state that outlives a call, and the clock, as a call finds them.
ProcessWideState ==
    [nLastCoinStakeSearchTime |-> LastCoinStakeSearchTime,
     nLastCoinStakeSearchInterval |-> nLastCoinStakeSearchInterval,
     m_last_block_num_txs |-> m_last_block_num_txs,
     m_last_block_weight |-> m_last_block_weight]
EntryState == [state |-> ProcessWideState, now |-> now]
NoCall == [pwallet |-> FALSE, found |-> FALSE, csTime |-> 0]

\* What the wallet's CreateCoinStake may leave in txCoinStake.nTime when the
\* search time is t: t itself or one timestamp granule earlier.
CoinStakeTimes(t) == {c \in {t, t - (StakeTimestampMask + 1)} : c >= 0}

\* CreateNewBlock from its entry to the call of addPackageTxs.  withWallet:
\* pwallet != nullptr; found and csTime: the result of the wallet's
\* CreateCoinStake and the nTime it leaves in the coinstake.  The result holds
\* the assembler, the new values of the two search statics, and cancel:
\* nullptr is returned with *pfPoSCancel set.
\* if (nSearchTime > nLastCoinStakeSearchTime)
\* The variant also searches a timestamp that was searched before.
CoinStakeSearchedAgain(nSearchTime, lastT) == nSearchTime >= lastT

CoinStakeSearched(nSearchTime, lastT) == nSearchTime > lastT

\* CreateCoinStake succeeded and the coinstake is later than the median time past.
\* The variant does not compare with the median time past.
CoinStakeAcceptedAnyTime(found, csTime) == found

CoinStakeAccepted(found, csTime) == found /\ csTime >= tip.mtp + 1

\* The two search statics after the search block; staked: a coinstake was
\* accepted.  The variant updates them only then.
SearchStaticsOnSuccessOnly(searched, staked, nSearchTime, lastT) ==
    [time |-> IF staked THEN nSearchTime ELSE lastT,
     interval |-> IF staked THEN nSearchTime - lastT ELSE nLastCoinStakeSearchInterval]

SearchStatics(searched, staked, nSearchTime, lastT) ==
    [time |-> IF searched THEN nSearchTime ELSE lastT,
     interval |-> IF searched THEN nSearchTime - lastT ELSE nLastCoinStakeSearchInterval]

\* *pfPoSCancel at the test `if (*pfPoSCancel) return nullptr`: set before the
\* search, cleared when a coinstake was accepted.  The variant never sets it.
PoSCancelNeverSet(staked) == FALSE

PoSCancel(staked) == ~staked

CreateNewBlockBegin(withWallet, found, csTime) ==
    LET lastT == LastCoinStakeSearchTime
        nSearchTime == MaskTime(now)
        searched == withWallet /\ CoinStakeSearched(nSearchTime, lastT)
        staked == searched /\ CoinStakeAccepted(found, csTime)
        statics == SearchStatics(searched, staked, nSearchTime, lastT)
        cb0 == CoinbaseTx(now, <<>>, IF withWallet THEN "default" ELSE "subsidy")
        b0 == [resetBlock EXCEPT !.nTime = now, !.nHeight = tip.nHeight + 1,
                                 !.vtx = <<NullTx>>, !.vTxFees = <<-1>>,
                                 !.vTxSigOpsCost = <<-1>>, !.coinbaseTx = cb0]
        b1 == IF staked
              THEN [b0 EXCEPT !.coinbaseTx = CoinbaseTx(csTime, <<>>, "empty"),
                              !.nTime = csTime,
                              !.vtx = Append(@, CoinStakeTx(csTime))]
              ELSE b0
        b2 == [b1 EXCEPT !.nFlags = IF withWallet THEN "pos" ELSE "pow",
                         !.nLockTimeCutoff = tip.mtp,
                         !.fIncludeWitness = tip.segwit,
                         !.mapModifiedTx = UpdatePackagesForAdded(b1.inBlock, << >>)]
        cancel == withWallet /\ PoSCancel(staked)
    IN [cancel |-> cancel,
        ba |-> IF cancel THEN b1 ELSE b2,
        searchTime |-> statics.time,
        searchInterval |-> statics.interval]

\* The template as CreateNewBlock leaves it after addPackageTxs returned.
FinalizeTemplate(b) ==
    LET cb == [b.coinbaseTx EXCEPT !.scriptSig = <<b.nHeight, 0>>]
        vtx1 == [b.vtx EXCEPT ![1] = cb]
        t1 == Max(tip.mtp + 1, GetMaxTransactionTime(vtx1))
    IN [b EXCEPT !.coinbaseTx = cb,
                 !.vtx = vtx1,
                 !.vTxFees = [@ EXCEPT ![1] = -b.nFees],
                 !.hashPrevBlock = tip.hash,
                 !.nTime = IF IsProofOfStake(vtx1) THEN t1 ELSE UpdateTime(t1, now),
                 !.nNonce = 0,
                 !.vTxSigOpsCost = [@ EXCEPT ![1] =
                     WITNESS_SCALE_FACTOR * (IF IsProofOfStake(vtx1) THEN 0 ELSE 1)]]

\* addPackageTxs: the loop run to its end.
RECURSIVE addPackageTxs(_)
addPackageTxs(b) ==
    IF addPackageTxsRunning(b) THEN addPackageTxs(addPackageTxsIteration(b)) ELSE b

\* ------------------------------------------ Spec: one call, the loop stepwise
\* What CreateCoinStake can answer: nothing, or a coinstake stamped with the
\* search time or with an earlier masked time.  Without a wallet it is not asked.
WalletOutcomes(withWallet) ==
    IF withWallet
    THEN {[found |-> FALSE, csTime |-> 0]}
         \cup {[found |-> TRUE, csTime |-> c] : c \in CoinStakeTimes(MaskTime(now))}
    ELSE {[found |-> FALSE, csTime |-> 0]}

\* What the part of CreateNewBlock before addPackageTxs writes outside the
\* assembler: the search statics and the caller's *pfPoSCancel.
CallEntry(r, withWallet, w) ==
    /\ pre' = EntryState
    /\ call' = [pwallet |-> withWallet, found |-> w.found, csTime |-> w.csTime]
    /\ searchInit' = TRUE
    /\ nLastCoinStakeSearchTime' = r.searchTime
    /\ nLastCoinStakeSearchInterval' = r.searchInterval
    /\ fPoSCancel' = r.cancel

\* CreateNewBlock up to the call of addPackageTxs, or to its return without
\* a template.
CreateNewBlockEnterStep ==
    /\ pc = "idle"
    /\ ret = "none"
    /\ \E withWallet \in BOOLEAN : \E w \in WalletOutcomes(withWallet) :
        \E r \in {CreateNewBlockBegin(withWallet, w.found, w.csTime)} :
        /\ CallEntry(r, withWallet, w)
        /\ ba' = r.ba
        /\ IF r.cancel THEN ret' = "null" /\ pc' = "idle"
                       ELSE ret' = "none" /\ pc' = "loop"
    /\ UNCHANGED <<mempool, nBlockMaxWeight, tip, now, m_last_block_num_txs,
                   m_last_block_weight, hashPrevBlockStatic, nExtraNonce>>

CreateNewBlockEnter ==
    /\ CreateNewBlockEnterStep
    /\ UNCHANGED <<stakeVars, envVars, extVars>>

\* One iteration of the selection loop.
AddPackageTxsStep ==
    /\ pc = "loop"
    /\ addPackageTxsRunning(ba)
    /\ ba' = addPackageTxsIteration(ba)
    /\ UNCHANGED <<stakeVars, envVars, extVars>>
    /\ UNCHANGED <<mempool, nBlockMaxWeight, tip, now, searchInit, nLastCoinStakeSearchTime,
                   nLastCoinStakeSearchInterval, m_last_block_num_txs, m_last_block_weight,
                   hashPrevBlockStatic, nExtraNonce, pc, call, fPoSCancel, ret, pre>>

\* !pblock->IsProofOfStake() && !TestBlockValidity(...): the right operand is
\* evaluated for a block that is not proof-of-stake.  The variant evaluates
\* it for every block.
TestBlockValidityAskedAlways(vtx) == TRUE

TestBlockValidityAsked(vtx) == ~IsProofOfStake(vtx)

\* CreateNewBlock from the return of addPackageTxs to its own return.
\* valid: what TestBlockValidity answers when it is asked.
CallExit(b, valid) ==
    LET t == FinalizeTemplate(b)
        asked == TestBlockValidityAsked(t.vtx)
    IN
    /\ ba' = [t EXCEPT !.tested = IF ~asked THEN "unasked"
                                  ELSE IF valid THEN "valid" ELSE "invalid"]
    /\ m_last_block_num_txs' = b.nBlockTx
    /\ m_last_block_weight' = b.nBlockWeight
    /\ IF asked /\ ~valid
       THEN ret' = "throw" /\ pc' = "idle"
       ELSE ret' = "template" /\ pc' = "returned"

CreateNewBlockLeaveStep ==
    /\ pc = "loop"
    /\ ~addPackageTxsRunning(ba)
    /\ ba.loop # "assert"
    /\ \E valid \in BOOLEAN : CallExit(ba, valid)
    /\ UNCHANGED <<mempool, nBlockMaxWeight, tip, now, searchInit, nLastCoinStakeSearchTime,
                   nLastCoinStakeSearchInterval, hashPrevBlockStatic, nExtraNonce,
                   call, fPoSCancel, pre>>

CreateNewBlockLeave ==
    /\ CreateNewBlockLeaveStep
    /\ UNCHANGED <<stakeVars, envVars, extVars>>

\* The tips the model draws from: segwit is active after the block at height 11.
Tips == { [hash |-> <<"block", n>>, nHeight |-> n, mtp |-> m, segwit |-> (n >= 11)] :
            n \in {10, 11}, m \in {20, 33} }

\* The callers of IncrementExtraNonce: two generateBlocks loops, each with its
\* own counter (unsigned int nExtraNonce = 0) and no template yet.
Callers == {"g1", "g2"}
NoBlock == [hashPrevBlock |-> NullHash, vtx |-> <<NullTx>>, coinbaseTx |-> NullTx,
            hashMerkleRoot |-> NullHash]
NonceIdle ==
    /\ callers = [c \in Callers |-> [pc |-> "start", nExtraNonce |-> 0, pblock |-> NoBlock]]
    /\ nonceWritten = [c \in Callers |-> [last |-> << >>, run |-> 0]]

\* A process whose last coinstake search was at time 16, at time 40.
\* No staking request has been served and no miner thread exists.
\* Two RPC worker threads serve requests side by side.
Workers == {"w1", "w2"}
\* ---- getblocktemplate: its parameters and its state before the first call
\* Chain parameter: the last proof-of-work height.
nLastPOWBlock == 11
TemplateMaxAge == 5
LongPollFirstCheck == 60
LongPollRecheck == 10

\* The clock advances GbtTickSeconds at a time and the mempool is updated at
\* most MaxUpdates times.
GbtTickSeconds == 30
MaxUpdates == 1

\* The age of the cached template is followed up to the first value above
\* TemplateMaxAge, the time a long-poll has waited up to LongPollFirstCheck.
AgeCap == TemplateMaxAge + 1

\* A worker's response: none yet, a template, an error or a proposal's answer.
NoProposal == [status |-> "none", hashPrevBlock |-> NullHash,
               state |-> [mode |-> "none", reason |-> ""]]
NoResponse == [kind |-> "none", text |-> "", previousblockhash |-> NullHash,
               longpollid |-> <<>>, rebuilt |-> FALSE, proposal |-> NoProposal,
               worker |-> "none"]

ErrorResponse(code) == [NoResponse EXCEPT !.kind = "error", !.text = code]

GbtIdleWorker ==
    [pc |-> "idle", watched |-> NullHash, counterLP |-> 0, untilCheck |-> 0, waited |-> 0]

NoTemplate == [hashPrevBlock |-> NullHash, updated |-> 0]

\* No call yet: nStart is 0, far in the past.
GbtIdle ==
    /\ cs_main = "free"
    /\ g_best_block = tip.hash
    /\ nTransactionsUpdated = 0
    /\ fRPCRunning = TRUE
    /\ gbtCache = [pindexPrev |-> NullHash, nTransactionsUpdatedLast |-> 0, age |-> AgeCap,
                   pblocktemplate |-> NoTemplate]
    /\ gbt = [w \in Workers |-> GbtIdleWorker]
    /\ gbtResponse = NoResponse

\* ---- submitblock, generateBlocks and generateblock before their first call
\* A default-constructed BlockValidationState is valid.
DefaultState == [mode |-> "valid", reason |-> ""]
SubmitIdle ==
    [pc |-> "idle", hash |-> NullHash, found |-> FALSE, state |-> DefaultState,
     own |-> << >>, others |-> 0, accepted |-> FALSE, new_block |-> FALSE, result |-> "none"]
NoMinedBlock == [hashPrevBlock |-> NullHash, nHeight |-> 0, nNonce |-> 0]
GenerateIdle ==
    [pc |-> "idle", nGenerate |-> 0, nHeight |-> 0, nHeightEnd |-> 0, nMaxTries |-> 0,
     maxTries0 |-> 0, nExtraNonce |-> 0, pblock |-> NoMinedBlock, blockHashes |-> << >>,
     increments |-> 0, accepted |-> {}, result |-> "none"]
BlockIdle ==
    [pc |-> "idle", segwit |-> FALSE, vtx |-> << >>, hashPrevBlock |-> NullHash,
     hashMerkleRoot |-> NullHash, result |-> "none"]
CallsIdle ==
    /\ submitCall = SubmitIdle
    /\ generateCall = GenerateIdle
    /\ blockCall = BlockIdle

StakingIdle ==
    /\ fEnableStaking = FALSE
    /\ threadStakeMiner = 0
    /\ miners = << >>
    /\ rpc = [w \in Workers |-> [pc |-> "idle", thread |-> 0, fGenerate |-> FALSE]]
    /\ requests = 0
    /\ handoffs = {}
    /\ terminated = FALSE
    /\ strMintWarning = ""
    /\ fShutdown = FALSE
    /\ interruptNet = FALSE
    /\ NonceIdle
    /\ GbtIdle
    /\ CallsIdle

Init ==
    /\ mempool \in Mempools
    /\ nBlockMaxWeight \in {ClampBlockMaxWeight(o) : o \in BlockMaxWeightOptions}
    /\ tip \in {t \in Tips : t.mtp = 20}
    /\ now = 40
    /\ searchInit = TRUE
    /\ nLastCoinStakeSearchTime = 16
    /\ nLastCoinStakeSearchInterval = 16
    /\ m_last_block_num_txs = -1
    /\ m_last_block_weight = -1
    /\ hashPrevBlockStatic = NullHash
    /\ nExtraNonce = 0
    /\ pc = "idle"
    /\ ba = resetBlock
    /\ call = NoCall
    /\ fPoSCancel = FALSE
    /\ ret = "none"
    /\ pre = EntryState
    /\ StakingIdle
    /\ network = "main"

Next ==
    \/ CreateNewBlockEnter
    \/ AddPackageTxsStep
    \/ CreateNewBlockLeave

Spec == Init /\ [][Next]_vars

\* ------------------------------- SpecCNB: whole calls, the clock, extra nonce
\* CreateNewBlock as one step, called again and again while the clock advances.
CreateNewBlock ==
    /\ pc \in {"idle", "returned", "extranonce"}
    /\ \E withWallet \in BOOLEAN : \E w \in WalletOutcomes(withWallet) :
        \E r \in {CreateNewBlockBegin(withWallet, w.found, w.csTime)} :
        /\ CallEntry(r, withWallet, w)
        /\ IF r.cancel
           THEN /\ ba' = r.ba
                /\ ret' = "null"
                /\ pc' = "idle"
                /\ UNCHANGED <<m_last_block_num_txs, m_last_block_weight>>
           ELSE \E b \in {addPackageTxs(r.ba)} :
                /\ b.loop # "assert"
                /\ \E valid \in BOOLEAN : CallExit(b, valid)
    /\ UNCHANGED <<stakeVars, envVars, extVars>>
    /\ UNCHANGED <<mempool, nBlockMaxWeight, tip, now, hashPrevBlockStatic, nExtraNonce>>

\* IncrementExtraNonce(pblock, pindexPrev, nExtraNonce): the block it leaves.
\* The variant takes the merkle root before it replaces the coinbase.
IncrementExtraNonceBlockStaleRoot(b, prevHeight, extraNonce) ==
    LET cb == [b.vtx[1] EXCEPT !.scriptSig = <<prevHeight + 1, extraNonce>>]
        vtx1 == [b.vtx EXCEPT ![1] = cb]
    IN [b EXCEPT !.vtx = vtx1, !.coinbaseTx = cb, !.hashMerkleRoot = BlockMerkleRoot(b.vtx)]

IncrementExtraNonceBlock(b, prevHeight, extraNonce) ==
    LET cb == [b.vtx[1] EXCEPT !.scriptSig = <<prevHeight + 1, extraNonce>>]
        vtx1 == [b.vtx EXCEPT ![1] = cb]
    IN [b EXCEPT !.vtx = vtx1, !.coinbaseTx = cb, !.hashMerkleRoot = BlockMerkleRoot(vtx1)]

\* The counter after IncrementExtraNonce: reset when the block's prev-hash is
\* not the one stored in the static, then incremented.  The counter is an
\* unsigned int; the callers here stay below MaxExtraNonce, far from its
\* wrap-around.  The variant never resets.
ExtraNonceNeverReset(stored, prev, counter) == counter + 1

ExtraNonceNext(stored, prev, counter) == (IF stored # prev THEN 0 ELSE counter) + 1

\* The caller applies IncrementExtraNonce to the template it was given.
IncrementExtraNonce ==
    /\ pc = "returned"
    /\ LET n == ExtraNonceNext(hashPrevBlockStatic, ba.hashPrevBlock, nExtraNonce) IN
        /\ n <= MaxExtraNonce
        /\ nExtraNonce' = n
        /\ hashPrevBlockStatic' = ba.hashPrevBlock
        /\ ba' = IncrementExtraNonceBlock(ba, tip.nHeight, n)
    /\ pc' = "extranonce"
    /\ UNCHANGED <<stakeVars, envVars, extVars>>
    /\ UNCHANGED <<mempool, nBlockMaxWeight, tip, now, searchInit, nLastCoinStakeSearchTime,
                   nLastCoinStakeSearchInterval, m_last_block_num_txs, m_last_block_weight,
                   call, fPoSCancel, ret, pre>>

\* The clock advances between calls.
ClockStep == 8
MaxClock == 48
Tick ==
    /\ now + ClockStep <= MaxClock
    /\ now' = now + ClockStep
    /\ UNCHANGED <<stakeVars, envVars, extVars>>
    /\ UNCHANGED <<mempool, nBlockMaxWeight, tip, searchInit, nLastCoinStakeSearchTime,
                   nLastCoinStakeSearchInterval, m_last_block_num_txs, m_last_block_weight,
                   hashPrevBlockStatic, nExtraNonce, pc, ba, call, fPoSCancel, ret, pre>>

\* A fresh process at time 24: the search static is not initialised yet.  The
\* mempool holds independent transactions.
InitCNB ==
    /\ mempool \in {m \in Mempools : \A h \in Txs : m[h].parents = {}}
    /\ nBlockMaxWeight = ClampBlockMaxWeight(12000)
    /\ tip \in Tips
    /\ now = 24
    /\ searchInit = FALSE
    /\ nLastCoinStakeSearchTime = 0
    /\ nLastCoinStakeSearchInterval = 0
    /\ m_last_block_num_txs = -1
    /\ m_last_block_weight = -1
    /\ hashPrevBlockStatic = NullHash
    /\ nExtraNonce = 0
    /\ pc = "idle"
    /\ ba = resetBlock
    /\ call = NoCall
    /\ fPoSCancel = FALSE
    /\ ret = "none"
    /\ pre = EntryState
    /\ StakingIdle
    /\ network = "main"

NextCNB ==
    \/ CreateNewBlock
    \/ IncrementExtraNonce
    \/ Tick

SpecCNB == InitCNB /\ [][NextCNB]_vars

\* ------------------------------------------- SpecStaking: the staking threads
\* The RPC workers serve staking requests, the miner threads run PoSMiner and a
\* peer extends the chain.  Each step is one access to shared state.
MaxRequests == 2
MaxHeight == 11

asmIdle == <<mempool, nBlockMaxWeight, now, searchInit, nLastCoinStakeSearchTime,
             m_last_block_num_txs, m_last_block_weight, hashPrevBlockStatic, nExtraNonce,
             pc, ba, call, fPoSCancel, ret, pre, extVars>>

EnableStaking == fEnableStaking

Threads == 1..Len(miners)
LiveMiners == {t \in Threads : miners[t].pc # "exited"}
joinable == threadStakeMiner # 0

\* The block that extends t.
NextTip(t) ==
    [hash |-> <<"block", t.nHeight + 1>>, nHeight |-> t.nHeight + 1, mtp |-> t.mtp,
     segwit |-> (t.nHeight + 1 >= 11)]

\* A block from a peer becomes the active tip.
TipAdvance ==
    /\ ~terminated
    /\ tip.nHeight < MaxHeight
    /\ tip' = NextTip(tip)
    /\ UNCHANGED <<asmIdle, nLastCoinStakeSearchInterval, stakeVars, envVars>>

\* ---- MinePoS and the staking RPC
\* staking(fGenerate): the handler up to MinePoS's test of the flag.
\* hasWallet: HasWallets() && GetWallets()[0]; without a wallet the handler
\* does nothing.  disabled: the wallet has WALLET_FLAG_DISABLE_PRIVATE_KEYS set.
MinePoSEnter(w) ==
    /\ ~terminated
    /\ rpc[w].pc = "idle"
    /\ requests < MaxRequests
    /\ requests' = requests + 1
    /\ \E fGenerate \in BOOLEAN, disabled \in BOOLEAN, hasWallet \in BOOLEAN :
        /\ ~hasWallet => ~disabled
        /\ IF ~hasWallet
           THEN /\ rpc' = [rpc EXCEPT ![w].fGenerate = fGenerate]
                /\ UNCHANGED fEnableStaking
           ELSE IF ~fGenerate \/ disabled
           THEN /\ fEnableStaking' = FALSE
                /\ rpc' = [rpc EXCEPT ![w].pc = IF fGenerate THEN "idle" ELSE "interrupt",
                                      ![w].fGenerate = fGenerate]
           ELSE /\ rpc' = [rpc EXCEPT ![w].pc = IF EnableStaking THEN "idle" ELSE "spawn",
                                      ![w].fGenerate = fGenerate]
                /\ UNCHANGED fEnableStaking
    /\ UNCHANGED <<asmIdle, envVars, tip, nLastCoinStakeSearchInterval, threadStakeMiner,
                   miners, handoffs, terminated>>

\* A miner thread at the entry of ThreadStakeMiner.  sleep and resume describe
\* the sleep_for the thread is in; fNeedToClear is PoSMiner's local; ibd and
\* found record what the thread last saw: initial block download at the
\* readiness check, and the result of ProcessBlockFound; passed lists the
\* tests the thread's latest block has passed, in the order they were made.
MinerAtStart ==
    [pc |-> "start", prev |-> NullHash, tipAtCheck |-> NullHash, fNeedToClear |-> FALSE,
     sleep |-> "none", resume |-> "none", ibd |-> FALSE, found |-> "none", passed |-> <<>>]

\* A miner thread that has returned from ThreadStakeMiner; `by` records the
\* return statement: before the loop ("start"), on a test of the flag or of
\* the shutdown request ("stopped"), on an interrupted sleep ("interrupted"),
\* or after CreateNewBlock gave no template ("notemplate").
MinerExited(by) == [MinerAtStart EXCEPT !.pc = "exited", !.resume = by]

\* fEnableStaking = true, and the std::thread temporary starts ThreadStakeMiner.
MinePoSSpawn(w) ==
    /\ ~terminated
    /\ rpc[w].pc = "spawn"
    /\ fEnableStaking' = TRUE
    /\ miners' = Append(miners, MinerAtStart)
    /\ rpc' = [rpc EXCEPT ![w].pc = "assign", ![w].thread = Len(miners) + 1]
    /\ UNCHANGED <<asmIdle, envVars, tip, nLastCoinStakeSearchInterval, threadStakeMiner,
                   requests, handoffs, terminated>>

\* threadStakeMiner = std::thread(...): the move assignment terminates the
\* process when the handle is joinable.
MinePoSAssignCheck(w) ==
    /\ ~terminated
    /\ rpc[w].pc = "assign"
    /\ IF joinable
       THEN terminated' = TRUE /\ UNCHANGED rpc
       ELSE rpc' = [rpc EXCEPT ![w].pc = "store"] /\ UNCHANGED terminated
    /\ UNCHANGED <<asmIdle, envVars, tip, nLastCoinStakeSearchInterval, fEnableStaking,
                   threadStakeMiner, miners, requests, handoffs>>

\* ... otherwise it takes over the temporary's thread.  The handle is not
\* synchronised: two workers can both pass the test and both store.
MinePoSAssignStore(w) ==
    /\ ~terminated
    /\ rpc[w].pc = "store"
    /\ threadStakeMiner' = rpc[w].thread
    /\ rpc' = [rpc EXCEPT ![w].pc = "idle", ![w].thread = 0]
    /\ UNCHANGED <<asmIdle, envVars, tip, nLastCoinStakeSearchInterval, fEnableStaking,
                   miners, requests, handoffs, terminated>>

\* InterruptStaking: clear the flag.  Nothing else is signalled to the miner.
InterruptStakingFlag(w) ==
    /\ ~terminated
    /\ rpc[w].pc = "interrupt"
    /\ fEnableStaking' = FALSE
    /\ rpc' = [rpc EXCEPT ![w].pc = "interruptJoin"]
    /\ UNCHANGED <<asmIdle, envVars, tip, nLastCoinStakeSearchInterval, threadStakeMiner,
                   miners, requests, handoffs, terminated>>

\* if (threadStakeMiner.joinable()) threadStakeMiner.join(): returns once the
\* thread has ended, and leaves the handle not joinable.
JoinIfJoinable(w, from, to) ==
    /\ ~terminated
    /\ rpc[w].pc = from
    /\ joinable => miners[threadStakeMiner].pc = "exited"
    /\ threadStakeMiner' = 0
    /\ rpc' = [rpc EXCEPT ![w].pc = to]
    /\ UNCHANGED <<asmIdle, envVars, tip, nLastCoinStakeSearchInterval, fEnableStaking,
                   miners, requests, handoffs, terminated>>

InterruptStakingJoin(w) == JoinIfJoinable(w, "interruptJoin", "stop")

StopStaking(w) == JoinIfJoinable(w, "stop", "reset")

\* The handler's last statement: nLastCoinStakeSearchInterval = 0.
StakingReset(w) ==
    /\ ~terminated
    /\ rpc[w].pc = "reset"
    /\ nLastCoinStakeSearchInterval' = 0
    /\ rpc' = [rpc EXCEPT ![w].pc = "idle"]
    /\ UNCHANGED <<asmIdle, envVars, tip, fEnableStaking, threadStakeMiner, miners, requests,
                   handoffs, terminated>>

\* ---- the node around the miner
\* StartShutdown().
StartShutdown ==
    /\ ~terminated
    /\ ~fShutdown
    /\ fShutdown' = TRUE
    /\ UNCHANGED <<asmVars, stakeVars, extVars, strMintWarning, interruptNet, network>>

\* CConnman::Interrupt() during shutdown triggers interruptNet.
ConnmanInterrupt ==
    /\ ~terminated
    /\ fShutdown
    /\ ~interruptNet
    /\ interruptNet' = TRUE
    /\ UNCHANGED <<asmVars, stakeVars, extVars, strMintWarning, fShutdown, network>>

\* ---- PoSMiner
minerIdle == <<asmIdle, nLastCoinStakeSearchInterval, fEnableStaking, threadStakeMiner, rpc,
               requests, terminated, fShutdown, interruptNet, network>>

\* if (ShutdownRequested() || !EnableStaking()) return; in the waiting loops.
\* The variant tests the shutdown request only.
MinerStopsOnShutdownOnly == fShutdown

MinerMustStop == fShutdown \/ ~EnableStaking

\* interruptNet.sleep_for(d) begins; the statement after it is `resume`.
MinerSleep(m, d, resume) == [m EXCEPT !.pc = "sleep", !.sleep = d, !.resume = resume]

\* The code before the loop: the reserved key and the -staking option.  Without
\* a key PoSMiner throws, and ThreadStakeMiner catches; with -staking=0 it
\* sets the warning and returns.
PoSMinerStartOutcomes == {"run", "keypool", "disabled"}

PoSMinerStart(t) ==
    /\ ~terminated
    /\ miners[t].pc = "start"
    /\ \E outcome \in PoSMinerStartOutcomes :
        /\ miners' = [miners EXCEPT ![t] =
                          IF outcome = "run" THEN [@ EXCEPT !.pc = "top"]
                          ELSE MinerExited("start")]
        /\ strMintWarning' = IF outcome = "disabled" THEN "disabled" ELSE strMintWarning
    /\ UNCHANGED <<minerIdle, tip, handoffs>>

\* while (EnableStaking()) { if (ShutdownRequested()) return; ...
MinerLoopHead(t) ==
    /\ ~terminated
    /\ miners[t].pc = "top"
    /\ miners' = [miners EXCEPT ![t] =
           IF EnableStaking /\ ~fShutdown THEN [@ EXCEPT !.pc = "locked"]
           ELSE MinerExited("stopped")]
    /\ UNCHANGED <<minerIdle, tip, handoffs, strMintWarning>>

\* One test of a waiting loop whose condition is `waiting`, by the thread in
\* state m: leave the loop to `next`, or return, or set the warning and sleep d
\* before the next test.
MinerWait(t, m, at, waiting, next, warning, d) ==
    IF ~waiting
    THEN /\ miners' = [miners EXCEPT ![t] = [m EXCEPT !.pc = next]]
         /\ UNCHANGED strMintWarning
    ELSE IF MinerMustStop
    THEN /\ miners' = [miners EXCEPT ![t] = MinerExited("stopped")]
         /\ UNCHANGED strMintWarning
    ELSE /\ miners' = [miners EXCEPT ![t] = MinerSleep([m EXCEPT !.fNeedToClear = TRUE], d, at)]
         /\ strMintWarning' = warning

\* while (pwallet->IsLocked())
MinerWalletLocked(t) ==
    /\ ~terminated
    /\ miners[t].pc = "locked"
    /\ \E isLocked \in BOOLEAN :
        MinerWait(t, miners[t], "locked", isLocked, "net", "locked", "2s")
    /\ UNCHANGED <<minerIdle, tip, handoffs>>

\* if (Params().NetworkIDString() == CBaseChainParams::REGTEST) break; the
\* variant leaves the loop on every network.
AnyChainSkipsWait(chain) == TRUE

RegtestSkipsWait(chain) == chain = "regtest"

\* while (connman == nullptr || GetNodeCount == 0 || IsInitialBlockDownload()):
\* the readiness check.  On regtest the loop is left by its first statement.
MinerNetworkWait(t) ==
    /\ ~terminated
    /\ miners[t].pc = "net"
    /\ \E noPeers \in BOOLEAN, isIBD \in BOOLEAN :
        MinerWait(t, [miners[t] EXCEPT !.ibd = isIBD], "net",
                  (noPeers \/ isIBD) /\ ~RegtestSkipsWait(network), "sync", "sync", "10s")
    /\ UNCHANGED <<minerIdle, tip, handoffs>>

\* while (GuessVerificationProgress(...) < 0.996), and after it the warning is
\* cleared when a waiting loop has set it.
MinerSyncWait(t) ==
    /\ ~terminated
    /\ miners[t].pc = "sync"
    /\ \E behind \in BOOLEAN :
        IF behind
        THEN MinerWait(t, miners[t], "sync", TRUE, "create", "sync", "10s")
        ELSE /\ miners' = [miners EXCEPT ![t].pc = "create", ![t].fNeedToClear = FALSE,
                                          ![t].ibd = FALSE]
             /\ strMintWarning' = IF miners[t].fNeedToClear THEN "" ELSE strMintWarning
    /\ UNCHANGED <<minerIdle, tip, handoffs>>

\* CreateNewBlock on the active tip, as the miner sees its result: cancelled
\* (sleep pos_timio and continue), no template (warning, sleep 10 s, return),
\* or a template on the tip.
CreateNewBlockOutcomes == {"cancel", "null", "template"}

MinerCreateNewBlock(t) ==
    /\ ~terminated
    /\ miners[t].pc = "create"
    /\ \E outcome \in CreateNewBlockOutcomes :
        /\ outcome = "template" => tip.nHeight < MaxHeight
        /\ miners' = [miners EXCEPT ![t] =
               CASE outcome = "cancel" -> MinerSleep(@, "pos_timio", "top")
                 [] outcome = "null" -> MinerSleep(@, "10s", "exited")
                 [] OTHER -> [@ EXCEPT !.pc = "sign", !.prev = tip.hash, !.passed = <<>>]]
        /\ strMintWarning' = IF outcome = "null" THEN "block" ELSE strMintWarning
    /\ UNCHANGED <<minerIdle, tip, handoffs>>

\* if (!SignBlock(*pblock, *pwallet)) continue; and ProcessBlockFound is next.
AfterSignBlock(m, signed) ==
    IF signed THEN [m EXCEPT !.pc = "check", !.passed = <<"sign">>]
    ELSE [m EXCEPT !.pc = "top", !.prev = NullHash]

\* SignBlock: on failure the loop continues.
MinerSignBlock(t) ==
    /\ ~terminated
    /\ miners[t].pc = "sign"
    /\ \E signed \in BOOLEAN : miners' = [miners EXCEPT ![t] = AfterSignBlock(@, signed)]
    /\ UNCHANGED <<minerIdle, tip, handoffs, strMintWarning>>

\* pblock->hashPrevBlock != m_chain.Tip()->GetBlockHash(); the variant omits
\* the test.
GeneratedBlockNeverStale(hashPrevBlock, chainTip) == FALSE

GeneratedBlockIsStale(hashPrevBlock, chainTip) == hashPrevBlock # chainTip.hash

\* The statements after ProcessBlockFound, whose result PoSMiner does not
\* read: sleep 60 + GetRand(4) seconds, then pos_timio.  The template is not
\* used again.
MinerAfterProcessBlockFound(m, result) ==
    MinerSleep([m EXCEPT !.found = result, !.prev = NullHash, !.tipAtCheck = NullHash],
               "cooldown", "pos_timio")

\* The two tests of ProcessBlockFound under cs_main, CheckProofOfStake first.
\* The variant goes on to ProcessNewBlock without reading what
\* CheckProofOfStake returned.
ProcessBlockFoundKernelUnread(m, kernelOk) ==
    LET m1 == IF kernelOk THEN [m EXCEPT !.passed = Append(@, "kernel")] ELSE m IN
    IF GeneratedBlockIsStale(m.prev, tip)
    THEN MinerAfterProcessBlockFound(m1, "failed")
    ELSE [m1 EXCEPT !.pc = "handoff", !.tipAtCheck = tip.hash, !.passed = Append(@, "tip")]

ProcessBlockFoundChecked(m, kernelOk) ==
    IF ~kernelOk THEN MinerAfterProcessBlockFound(m, "failed")
    ELSE LET m1 == [m EXCEPT !.passed = Append(@, "kernel")] IN
         IF GeneratedBlockIsStale(m.prev, tip)
         THEN MinerAfterProcessBlockFound(m1, "failed")
         ELSE [m1 EXCEPT !.pc = "handoff", !.tipAtCheck = tip.hash,
                         !.passed = Append(@, "tip")]

\* ProcessBlockFound, the scope of LOCK(cs_main): the kernel check and the
\* staleness check.  Either failure makes it return false.
ProcessBlockFoundCheck(t) ==
    /\ ~terminated
    /\ miners[t].pc = "check"
    /\ \E kernelOk \in BOOLEAN :
        miners' = [miners EXCEPT ![t] = ProcessBlockFoundChecked(@, kernelOk)]
    /\ UNCHANGED <<minerIdle, tip, handoffs, strMintWarning>>

\* ProcessBlockFound after the lock is released: ProcessNewBlock.  An accepted
\* block on the active tip becomes the new tip; ProcessBlockFound returns
\* whether the block was accepted.
ProcessNewBlock(t) ==
    /\ ~terminated
    /\ miners[t].pc = "handoff"
    /\ handoffs' = {[prev |-> miners[t].prev, tipAtCheck |-> miners[t].tipAtCheck,
                     tipAtHandoff |-> tip.hash]}
    /\ \E accepted \in BOOLEAN :
        /\ tip' = IF accepted /\ miners[t].prev = tip.hash THEN NextTip(tip) ELSE tip
        /\ miners' = [miners EXCEPT ![t] =
               MinerAfterProcessBlockFound(@, IF accepted THEN "ok" ELSE "failed")]
    /\ UNCHANGED <<minerIdle, strMintWarning>>

\* CThreadInterrupt::sleep_for returns true: the full duration has elapsed.
\* After the cooldown the miner sleeps pos_timio before it continues.
SleepElapses(t) ==
    /\ ~terminated
    /\ miners[t].pc = "sleep"
    /\ ~interruptNet
    /\ miners' = [miners EXCEPT ![t] =
           IF miners[t].resume = "pos_timio"
           THEN MinerSleep([miners[t] EXCEPT !.found = "none", !.passed = <<>>],
                           "pos_timio", "top")
           ELSE IF miners[t].resume = "exited"
           THEN MinerExited("notemplate")
           ELSE [miners[t] EXCEPT !.pc = miners[t].resume, !.sleep = "none",
                                  !.resume = "none"]]
    /\ UNCHANGED <<minerIdle, tip, handoffs, strMintWarning>>

\* CThreadInterrupt::sleep_for returns false, at once, when interruptNet has
\* been triggered: the miner returns.
SleepInterrupted(t) ==
    /\ ~terminated
    /\ miners[t].pc = "sleep"
    /\ interruptNet
    /\ miners' = [miners EXCEPT ![t] = MinerExited("interrupted")]
    /\ UNCHANGED <<minerIdle, tip, handoffs, strMintWarning>>

\* The staking RPC served by two workers, on a node that is not shutting down,
\* has its wallet unlocked and is connected and synchronised: the waiting
\* loops of the miner are passed at their first test.
WaitsPass == \A t \in DOMAIN miners' : miners'[t].resume \notin {"locked", "net", "sync"}

InitStaking ==
    /\ mempool \in {m \in Mempools : \A h \in Txs : m[h].parents = {} /\ m[h].nTxWeight = 1000}
    /\ nBlockMaxWeight = ClampBlockMaxWeight(12000)
    /\ tip \in {t \in Tips : t.nHeight = 10 /\ t.mtp = 20}
    /\ now = 40
    /\ searchInit = TRUE
    /\ nLastCoinStakeSearchTime = 16
    /\ nLastCoinStakeSearchInterval = 16
    /\ m_last_block_num_txs = -1
    /\ m_last_block_weight = -1
    /\ hashPrevBlockStatic = NullHash
    /\ nExtraNonce = 0
    /\ pc = "idle"
    /\ ba = resetBlock
    /\ call = NoCall
    /\ fPoSCancel = FALSE
    /\ ret = "none"
    /\ pre = EntryState
    /\ StakingIdle
    /\ network = "main"

NextStaking ==
    \/ TipAdvance
    \/ \E w \in Workers : MinePoSEnter(w)
    \/ \E w \in Workers : MinePoSSpawn(w)
    \/ \E w \in Workers : MinePoSAssignCheck(w)
    \/ \E w \in Workers : MinePoSAssignStore(w)
    \/ \E w \in Workers : InterruptStakingFlag(w)
    \/ \E w \in Workers : InterruptStakingJoin(w)
    \/ \E w \in Workers : StopStaking(w)
    \/ \E w \in Workers : StakingReset(w)
    \/ \E t \in Threads : PoSMinerStart(t)
    \/ \E t \in Threads : MinerLoopHead(t)
    \/ \E t \in Threads : MinerWalletLocked(t) /\ WaitsPass
    \/ \E t \in Threads : MinerNetworkWait(t) /\ WaitsPass
    \/ \E t \in Threads : MinerSyncWait(t) /\ WaitsPass
    \/ \E t \in Threads : MinerCreateNewBlock(t)
    \/ \E t \in Threads : MinerSignBlock(t)
    \/ \E t \in Threads : ProcessBlockFoundCheck(t)
    \/ \E t \in Threads : ProcessNewBlock(t)
    \/ \E t \in Threads : SleepElapses(t)

SpecStaking == InitStaking /\ [][NextStaking]_vars

\* ---- one RPC worker, the miner in full, and the node's shutdown
Networks == {"main", "regtest"}

InitMiner ==
    /\ mempool \in {m \in Mempools : \A h \in Txs : m[h].parents = {} /\ m[h].nTxWeight = 1000}
    /\ nBlockMaxWeight = ClampBlockMaxWeight(12000)
    /\ tip \in {t \in Tips : t.nHeight = 10 /\ t.mtp = 20}
    /\ now = 40
    /\ searchInit = TRUE
    /\ nLastCoinStakeSearchTime = 16
    /\ nLastCoinStakeSearchInterval = 16
    /\ m_last_block_num_txs = -1
    /\ m_last_block_weight = -1
    /\ hashPrevBlockStatic = NullHash
    /\ nExtraNonce = 0
    /\ pc = "idle"
    /\ ba = resetBlock
    /\ call = NoCall
    /\ fPoSCancel = FALSE
    /\ ret = "none"
    /\ pre = EntryState
    /\ StakingIdle
    /\ network \in Networks

\* Any step of miner thread t.
MinerStep(t) ==
    \/ PoSMinerStart(t)
    \/ MinerLoopHead(t)
    \/ MinerWalletLocked(t)
    \/ MinerNetworkWait(t)
    \/ MinerSyncWait(t)
    \/ MinerCreateNewBlock(t)
    \/ MinerSignBlock(t)
    \/ ProcessBlockFoundCheck(t)
    \/ ProcessNewBlock(t)
    \/ SleepElapses(t)
    \/ SleepInterrupted(t)

NextMiner ==
    \/ TipAdvance
    \/ StartShutdown
    \/ ConnmanInterrupt
    \/ MinePoSEnter("w1")
    \/ MinePoSSpawn("w1")
    \/ MinePoSAssignCheck("w1")
    \/ MinePoSAssignStore("w1")
    \/ InterruptStakingFlag("w1")
    \/ InterruptStakingJoin("w1")
    \/ StopStaking("w1")
    \/ StakingReset("w1")
    \/ \E t \in Threads : PoSMinerStart(t)
    \/ \E t \in Threads : MinerLoopHead(t)
    \/ \E t \in Threads : MinerWalletLocked(t)
    \/ \E t \in Threads : MinerNetworkWait(t)
    \/ \E t \in Threads : MinerSyncWait(t)
    \/ \E t \in Threads : MinerCreateNewBlock(t)
    \/ \E t \in Threads : MinerSignBlock(t)
    \/ \E t \in Threads : ProcessBlockFoundCheck(t)
    \/ \E t \in Threads : ProcessNewBlock(t)
    \/ \E t \in Threads : SleepElapses(t)
    \/ \E t \in Threads : SleepInterrupted(t)

SpecMiner == InitMiner /\ [][NextMiner]_vars

\* Every sleep and every external call of a miner thread returns, and the
\* miner threads are scheduled: while some miner thread can take a step, some
\* miner thread eventually takes one.
AnyMinerStep == \E t \in Threads : MinerStep(t)

SpecMinerFair == SpecMiner /\ WF_vars(AnyMinerStep)

\* ------------------------------- SpecNonce: the callers of IncrementExtraNonce
\* generateBlocks: CreateNewBlock gives the caller a template on the active
\* tip; cs_main is not held between this and GenerateBlock.
CallerTemplate(t) ==
    LET cb == CoinbaseTx(0, <<t.nHeight + 1, 0>>, "dummy")
    IN [hashPrevBlock |-> t.hash, vtx |-> <<cb>>, coinbaseTx |-> cb,
        hashMerkleRoot |-> NullHash]

CallerCreateNewBlock(c) ==
    /\ callers[c].pc \in {"start", "called"}
    /\ callers' = [callers EXCEPT ![c].pc = "template", ![c].pblock = CallerTemplate(tip)]
    /\ UNCHANGED <<asmVars, stakeVars, envVars, gbtVars, callVars, nonceWritten>>

\* What caller c has written for prev-hash prev: the value of its last call
\* for it (0: none).
LastWrittenFor(c, prev) ==
    IF \E i \in 1..Len(nonceWritten[c].last) : nonceWritten[c].last[i].prev = prev
    THEN (CHOOSE e \in {nonceWritten[c].last[i] : i \in 1..Len(nonceWritten[c].last)} :
              e.prev = prev).value
    ELSE 0

\* nonceWritten after c wrote value for prev: per caller the last value for
\* each prev-hash, and the last value since the static last changed.
RecordNonce(c, prev, value) ==
    [d \in Callers |->
        IF d = c
        THEN [last |-> SelectSeq(nonceWritten[c].last, LAMBDA e : e.prev # prev)
                        \o <<[prev |-> prev, value |-> value]>>,
              run |-> value]
        ELSE [nonceWritten[d] EXCEPT
                 !.run = IF hashPrevBlockStatic # prev THEN 0 ELSE nonceWritten[d].run]]

\* GenerateBlock: LOCK(cs_main); IncrementExtraNonce(&block, Tip(), extra_nonce).
\* The calls are serialized by the lock.
CallerIncrementExtraNonce(c) ==
    /\ callers[c].pc = "template"
    /\ \E n \in {ExtraNonceNext(hashPrevBlockStatic, callers[c].pblock.hashPrevBlock,
                                 callers[c].nExtraNonce)} :
        /\ n <= MaxExtraNonce
        /\ hashPrevBlockStatic' = callers[c].pblock.hashPrevBlock
        /\ callers' = [callers EXCEPT ![c] =
               [pc |-> "called", nExtraNonce |-> n,
                pblock |-> IncrementExtraNonceBlock(callers[c].pblock, tip.nHeight, n)]]
        /\ nonceWritten' = RecordNonce(c, callers[c].pblock.hashPrevBlock, n)
    /\ UNCHANGED <<stakeVars, envVars, gbtVars, callVars>>
    /\ UNCHANGED <<mempool, nBlockMaxWeight, tip, now, searchInit, nLastCoinStakeSearchTime,
                   nLastCoinStakeSearchInterval, m_last_block_num_txs, m_last_block_weight,
                   nExtraNonce, pc, ba, call, fPoSCancel, ret, pre>>

InitNonce ==
    /\ mempool \in {m \in Mempools : \A h \in Txs : m[h].parents = {} /\ m[h].nTxWeight = 1000}
    /\ nBlockMaxWeight = ClampBlockMaxWeight(12000)
    /\ tip \in {t \in Tips : t.nHeight = 10 /\ t.mtp = 20}
    /\ now = 40
    /\ searchInit = FALSE
    /\ nLastCoinStakeSearchTime = 0
    /\ nLastCoinStakeSearchInterval = 0
    /\ m_last_block_num_txs = -1
    /\ m_last_block_weight = -1
    /\ hashPrevBlockStatic = NullHash
    /\ nExtraNonce = 0
    /\ pc = "idle"
    /\ ba = resetBlock
    /\ call = NoCall
    /\ fPoSCancel = FALSE
    /\ ret = "none"
    /\ pre = EntryState
    /\ StakingIdle
    /\ network = "regtest"

NextNonce ==
    \/ TipAdvance
    \/ \E c \in Callers : CallerCreateNewBlock(c)
    \/ \E c \in Callers : CallerIncrementExtraNonce(c)

SpecNonce == InitNonce /\ [][NextNonce]_vars

\* ------------------------------------------------ SpecGBT: getblocktemplate
BlockHashes == {<<"block", n>> : n \in 10..MaxHeight}

\* No getblocktemplate call returns in this step.
NoReturn == gbtResponse' = NoResponse

\* ActivateBestChain, under cs_main: a block becomes the active tip.
BlockConnected ==
    /\ cs_main = "free"
    /\ tip.nHeight < MaxHeight
    /\ tip' = NextTip(tip)
    /\ NoReturn
    /\ UNCHANGED <<mempool, nBlockMaxWeight, now, searchInit, nLastCoinStakeSearchTime,
                   nLastCoinStakeSearchInterval, m_last_block_num_txs, m_last_block_weight,
                   hashPrevBlockStatic, nExtraNonce, pc, ba, call, fPoSCancel, ret, pre,
                   stakeVars, envVars, nonceVars, callVars, cs_main, g_best_block,
                   nTransactionsUpdated, fRPCRunning, gbtCache, gbt>>

\* The validation interface publishes the new tip in g_best_block and notifies
\* the waiting long-polls.
NotifyBestBlock ==
    /\ g_best_block # tip.hash
    /\ g_best_block' = tip.hash
    /\ NoReturn
    /\ UNCHANGED <<asmVars, stakeVars, envVars, nonceVars, callVars, cs_main, nTransactionsUpdated,
                   fRPCRunning, gbtCache, gbt>>

\* The mempool changes: CTxMemPool::nTransactionsUpdated goes up.
MempoolUpdated ==
    /\ nTransactionsUpdated < MaxUpdates
    /\ nTransactionsUpdated' = nTransactionsUpdated + 1
    /\ NoReturn
    /\ UNCHANGED <<asmVars, stakeVars, envVars, nonceVars, callVars, cs_main, g_best_block,
                   fRPCRunning, gbtCache, gbt>>

\* StopRPC / InterruptRPC: IsRPCRunning() is false from now on.
StopRPC ==
    /\ fRPCRunning
    /\ fRPCRunning' = FALSE
    /\ NoReturn
    /\ UNCHANGED <<asmVars, stakeVars, envVars, nonceVars, callVars, cs_main, g_best_block,
                   nTransactionsUpdated, gbtCache, gbt>>

\* Time passes for the cached template and for the waiting long-polls.
GbtWaiting(r) == r.pc = "lpwait"

GbtTick ==
    /\ gbtCache' = [gbtCache EXCEPT !.age = Min(AgeCap, @ + GbtTickSeconds)]
    /\ gbt' = [w \in Workers |->
                 IF GbtWaiting(gbt[w])
                 THEN [gbt[w] EXCEPT !.untilCheck = Max(0, @ - GbtTickSeconds),
                                     !.waited = Min(LongPollFirstCheck, @ + GbtTickSeconds)]
                 ELSE gbt[w]]
    /\ gbtCache' # gbtCache \/ gbt' # gbt
    /\ NoReturn
    /\ UNCHANGED <<asmVars, stakeVars, envVars, nonceVars, callVars, cs_main, g_best_block,
                   nTransactionsUpdated, fRPCRunning>>

\* ---- the handler
\* A block index entry's answer to a proposal of a known block.
DuplicateResult(status) ==
    IF status = "valid-scripts" THEN "duplicate"
    ELSE IF status = "failed" THEN "duplicate-invalid"
    ELSE "duplicate-inconclusive"

\* BIP22ValidationResult(state): the answer, or "throw" for RPC_VERIFY_ERROR.
BIP22ValidationResult(state) ==
    IF state.mode = "valid" THEN "null"
    ELSE IF state.mode = "error" THEN "throw"
    ELSE IF state.mode = "invalid"
    THEN (IF state.reason = "" THEN "rejected" ELSE state.reason)
    ELSE "valid?"

ValidationStates ==
    { [mode |-> "valid", reason |-> ""], [mode |-> "error", reason |-> "disk"],
      [mode |-> "invalid", reason |-> ""], [mode |-> "invalid", reason |-> "bad-txns"],
      [mode |-> "other", reason |-> ""] }

\* Proposal mode after the block was decoded: the block index first, then the
\* prev-hash against the tip, then TestBlockValidity.  The variant tests the
\* prev-hash first.
ProposalResultPrevFirst(status, hashPrevBlock, state) ==
    IF hashPrevBlock # tip.hash THEN "inconclusive-not-best-prevblk"
    ELSE IF status # "absent" THEN DuplicateResult(status)
    ELSE BIP22ValidationResult(state)

ProposalResult(status, hashPrevBlock, state) ==
    IF status # "absent" THEN DuplicateResult(status)
    ELSE IF hashPrevBlock # tip.hash THEN "inconclusive-not-best-prevblk"
    ELSE BIP22ValidationResult(state)

\* The proposals a client sends: what the block index knows of the block's
\* hash, the block's prev-hash, and what TestBlockValidity says of the block
\* when it is called (there is no state when it is not).
ProposalStatuses == {"absent", "valid-scripts", "failed", "other"}

Proposals ==
    { p \in [status : ProposalStatuses,
             hashPrevBlock : BlockHashes,
             state : ValidationStates \cup {NoProposal.state}] :
        (p.state # NoProposal.state) <=> (p.status = "absent" /\ p.hashPrevBlock = tip.hash) }

ProposalResponse(p) ==
    LET text == ProposalResult(p.status, p.hashPrevBlock, p.state)
    IN IF text = "throw"
       THEN [ErrorResponse("RPC_VERIFY_ERROR") EXCEPT !.proposal = p]
       ELSE [NoResponse EXCEPT !.kind = "proposal", !.text = text, !.proposal = p]

\* The handler returns or throws: worker w is idle again, and `response` is
\* what its client receives.
GbtReturn(w, response) ==
    /\ gbt' = [gbt EXCEPT ![w] = GbtIdleWorker]
    /\ gbtResponse' = [response EXCEPT !.worker = w]

\* The checks of template mode before the long-poll, in their order.
TemplatePrecheck(noPeers, isIBD) ==
    IF network # "regtest" /\ noPeers THEN "RPC_CLIENT_NOT_CONNECTED"
    ELSE IF network # "regtest" /\ isIBD THEN "RPC_CLIENT_IN_INITIAL_DOWNLOAD"
    ELSE IF tip.nHeight > nLastPOWBlock THEN "RPC_MISC_ERROR"
    ELSE "ok"

\* getblocktemplate from LOCK(cs_main) to the first of: a return or throw
\* (proposal mode, a bad mode, a failed check), the long-poll's
\* LEAVE_CRITICAL_SECTION, or the template part with the lock held.
\* lp is the request's longpollid: none, a string <hash><counter>, or another
\* value (then the tip and nTransactionsUpdatedLast are watched).  modes: the
\* modes the clients ask for.
DecodedData == {"nodata", "undecodable", "block"}
LongPollIds == {"none", "string", "other"}
GbtModes == {"template", "proposal", "bad"}

GbtCall(w, modes) ==
    /\ cs_main = "free"
    /\ gbt[w].pc = "idle"
    /\ requests < MaxRequests
    /\ requests' = requests + 1
    /\ \E mode \in modes :
        CASE mode = "bad" ->
                /\ GbtReturn(w, ErrorResponse("RPC_INVALID_PARAMETER"))
                /\ UNCHANGED cs_main
          [] mode = "proposal" ->
                /\ \E decoded \in DecodedData :
                    IF decoded = "nodata"
                    THEN GbtReturn(w, ErrorResponse("RPC_TYPE_ERROR"))
                    ELSE IF decoded = "undecodable"
                    THEN GbtReturn(w, ErrorResponse("RPC_DESERIALIZATION_ERROR"))
                    ELSE \E p \in Proposals : GbtReturn(w, ProposalResponse(p))
                /\ UNCHANGED cs_main
          [] OTHER ->
                \E noPeers \in BOOLEAN, isIBD \in BOOLEAN,
                   lp \in LongPollIds :
                    \E check \in {TemplatePrecheck(noPeers, isIBD)} :
                        IF check # "ok"
                        THEN /\ GbtReturn(w, ErrorResponse(check))
                             /\ UNCHANGED cs_main
                        ELSE IF lp = "none"
                        THEN /\ gbt' = [gbt EXCEPT ![w].pc = "rules"]
                             /\ cs_main' = w
                             /\ NoReturn
                        ELSE /\ \E h \in (IF lp = "string" THEN BlockHashes ELSE {tip.hash}),
                                   c \in (IF lp = "string" THEN 0..MaxUpdates
                                          ELSE {gbtCache.nTransactionsUpdatedLast}) :
                                gbt' = [gbt EXCEPT ![w] =
                                    [gbt[w] EXCEPT !.pc = "lpwait",
                                              !.watched = h, !.counterLP = c,
                                              !.untilCheck = LongPollFirstCheck,
                                              !.waited = 0]]
                             /\ NoReturn
                             /\ UNCHANGED cs_main
    /\ UNCHANGED <<asmVars, fEnableStaking, threadStakeMiner, miners, rpc, handoffs,
                   terminated, envVars, nonceVars, callVars, g_best_block, nTransactionsUpdated,
                   fRPCRunning, gbtCache>>

\* A call in any mode, and a call in template mode.
GbtEnter(w) == GbtCall(w, GbtModes)
GbtEnterTemplate(w) == GbtCall(w, {"template"})

\* while (g_best_block == hashWatchedChain && IsRPCRunning()); the variant
\* does not test IsRPCRunning().
LongPollWatchesBlockOnly(r) == g_best_block = r.watched

LongPollContinues(r) == g_best_block = r.watched /\ fRPCRunning

\* wait_until(lock, checktxtime) == timeout; the variant times out at once.
LongPollTimesOutAtOnce(r) == TRUE

LongPollTimedOut(r) == r.untilCheck = 0

\* One evaluation of the long-poll loop by a woken worker (a notification, a
\* timeout, or a spurious wake-up): the loop ends because its condition is
\* false, or at a timeout with the mempool counter changed; at a timeout
\* without change checktxtime moves 10 s on.  The loop's locals end with it.
LongPollStep(w) ==
    /\ gbt[w].pc = "lpwait"
    /\ IF ~LongPollContinues(gbt[w])
       THEN gbt' = [gbt EXCEPT ![w] = [GbtIdleWorker EXCEPT !.pc = "lpexit"]]
       ELSE /\ LongPollTimedOut(gbt[w])
            /\ IF nTransactionsUpdated # gbt[w].counterLP
               THEN gbt' = [gbt EXCEPT ![w] = [GbtIdleWorker EXCEPT !.pc = "lpexit"]]
               ELSE gbt' = [gbt EXCEPT ![w].untilCheck = LongPollRecheck]
    /\ NoReturn
    /\ UNCHANGED <<asmVars, stakeVars, envVars, nonceVars, callVars, cs_main, g_best_block,
                   nTransactionsUpdated, fRPCRunning, gbtCache>>

\* ENTER_CRITICAL_SECTION(cs_main); if (!IsRPCRunning()) throw.
LongPollReenter(w) ==
    /\ gbt[w].pc = "lpexit"
    /\ cs_main = "free"
    /\ IF ~fRPCRunning
       THEN /\ GbtReturn(w, ErrorResponse("RPC_CLIENT_NOT_CONNECTED"))
            /\ UNCHANGED cs_main
       ELSE /\ gbt' = [gbt EXCEPT ![w].pc = "rules"]
            /\ cs_main' = w
            /\ NoReturn
    /\ UNCHANGED <<asmVars, stakeVars, envVars, nonceVars, callVars, g_best_block, nTransactionsUpdated,
                   fRPCRunning, gbtCache>>

\* pindexPrev != Tip() || (GetTransactionsUpdated() != nTransactionsUpdatedLast
\* && GetTime() - nStart > 5); the variant leaves the age out.
TemplateStaleAtAnyAge(cache) ==
    \/ cache.pindexPrev # tip.hash
    \/ nTransactionsUpdated # cache.nTransactionsUpdatedLast

TemplateStale(cache) ==
    \/ cache.pindexPrev # tip.hash
    \/ nTransactionsUpdated # cache.nTransactionsUpdatedLast /\ cache.age > TemplateMaxAge

\* The statics while CreateNewBlock runs: pindexPrev cleared, the counter and
\* the time taken.
CacheBeforeBuild(cache) ==
    [cache EXCEPT !.pindexPrev = NullHash, !.nTransactionsUpdatedLast = nTransactionsUpdated,
                  !.age = 0]

\* The template CreateNewBlock builds on the tip.
BuiltTemplate == [hashPrevBlock |-> tip.hash, updated |-> nTransactionsUpdated]

\* The result object of a template: previousblockhash from the block,
\* longpollid from the tip and nTransactionsUpdatedLast.
TemplateResponse(cache, rebuilt) ==
    [NoResponse EXCEPT !.kind = "template",
                       !.previousblockhash = cache.pblocktemplate.hashPrevBlock,
                       !.longpollid = <<tip.hash, cache.nTransactionsUpdatedLast>>,
                       !.rebuilt = rebuilt]

\* The rest of the handler, cs_main held: the segwit rule, the cached
\* template or a new one, and the result.  segwit: the request's rules name
\* segwit (the request is read nowhere else, so the input is drawn here).
\* CreateNewBlock gives a template, or nothing (RPC_OUT_OF_MEMORY), or throws.
BuildOutcomes == {"template", "null", "throw"}

GbtTemplate(w) ==
    /\ gbt[w].pc = "rules"
    /\ cs_main = w
    /\ cs_main' = "free"
    /\ \E segwit \in BOOLEAN :
       IF ~segwit
       THEN /\ GbtReturn(w, ErrorResponse("RPC_INVALID_PARAMETER"))
            /\ UNCHANGED gbtCache
       ELSE IF ~TemplateStale(gbtCache)
       THEN /\ GbtReturn(w, TemplateResponse(gbtCache, FALSE))
            /\ UNCHANGED gbtCache
       ELSE \E built \in BuildOutcomes :
            \E c \in {CacheBeforeBuild(gbtCache)} :
                CASE built = "template" ->
                        \E c1 \in {[c EXCEPT !.pblocktemplate = BuiltTemplate,
                                             !.pindexPrev = tip.hash]} :
                            /\ gbtCache' = c1
                            /\ GbtReturn(w, TemplateResponse(c1, TRUE))
                  [] built = "null" ->
                        /\ gbtCache' = [c EXCEPT !.pblocktemplate = NoTemplate]
                        /\ GbtReturn(w, [ErrorResponse("RPC_OUT_OF_MEMORY")
                                                    EXCEPT !.rebuilt = TRUE])
                  [] OTHER ->
                        /\ gbtCache' = c
                        /\ GbtReturn(w, [ErrorResponse("runtime_error")
                                                    EXCEPT !.rebuilt = TRUE])
    /\ UNCHANGED <<asmVars, stakeVars, envVars, nonceVars, callVars, g_best_block, nTransactionsUpdated,
                   fRPCRunning>>

InitGBT ==
    /\ mempool \in {m \in Mempools : \A h \in Txs : m[h].parents = {} /\ m[h].nTxWeight = 1000}
    /\ nBlockMaxWeight = ClampBlockMaxWeight(12000)
    /\ tip \in {t \in Tips : t.nHeight = 10 /\ t.mtp = 20}
    /\ now = 40
    /\ searchInit = FALSE
    /\ nLastCoinStakeSearchTime = 0
    /\ nLastCoinStakeSearchInterval = 0
    /\ m_last_block_num_txs = -1
    /\ m_last_block_weight = -1
    /\ hashPrevBlockStatic = NullHash
    /\ nExtraNonce = 0
    /\ pc = "idle"
    /\ ba = resetBlock
    /\ call = NoCall
    /\ fPoSCancel = FALSE
    /\ ret = "none"
    /\ pre = EntryState
    /\ StakingIdle
    /\ network \in Networks

\* Any step of worker w in getblocktemplate.
GbtStep(w) ==
    \/ GbtEnter(w)
    \/ LongPollStep(w)
    \/ LongPollReenter(w)
    \/ GbtTemplate(w)

\* One RPC worker serves getblocktemplate while blocks are connected, the
\* best block is published, the mempool changes, time passes and the server
\* is stopped.
NextGBT ==
    \/ BlockConnected
    \/ NotifyBestBlock
    \/ MempoolUpdated
    \/ StopRPC
    \/ GbtTick
    \/ GbtEnter("w1")
    \/ LongPollStep("w1")
    \/ LongPollReenter("w1")
    \/ GbtTemplate("w1")

SpecGBT == InitGBT /\ [][NextGBT]_vars

\* ------------------------------------------------------------------ properties
RECURSIVE SumFrom(_, _)
SumFrom(seq, i) == IF i > Len(seq) THEN 0 ELSE seq[i] + SumFrom(seq, i + 1)

\* The index of mempool transaction h in vtx.
PositionOf(vtx, h) == CHOOSE i \in 1..Len(vtx) : vtx[i].kind = "tx" /\ vtx[i].h = h

\* C1: at every point of the selection and in the finished template, the block
\* weight is at most the configured maximum weight and the block sigop cost is
\* at most MAX_BLOCK_SIGOPS_COST.
C1_BlockWithinLimits ==
    /\ ba.nBlockWeight <= nBlockMaxWeight
    /\ ba.nBlockSigOpsCost <= MAX_BLOCK_SIGOPS_COST

\* A package was turned away by TestPackage after transactions had been added.
C1_PackageRejectedAfterAdd ==
    /\ pc = "loop"
    /\ ba.nBlockTx >= 1
    /\ ba.nConsecutiveFailed >= 1

\* C2: in every template CreateNewBlock returns, no mempool transaction comes
\* before one of its mempool parents.
C2_TopologicalOrder ==
    ret = "template" =>
        \A i, j \in 1..Len(ba.vtx) :
            (i < j /\ ba.vtx[i].kind = "tx" /\ ba.vtx[j].kind = "tx")
                => ba.vtx[j].h \notin mempool[ba.vtx[i].h].parents

\* A returned template that holds a child, its parent and its grandparent.
C2_ChainInTemplate ==
    /\ ret = "template"
    /\ \E i, j, k \in 1..Len(ba.vtx) :
        /\ i < j /\ j < k
        /\ ba.vtx[i].kind = "tx"
        /\ ba.vtx[i].h \in mempool[ba.vtx[j].h].parents
        /\ ba.vtx[j].h \in mempool[ba.vtx[k].h].parents

\* C3: at every point of the selection, every mempool ancestor of a transaction
\* in inBlock is in inBlock too and was added before it.
C3_InBlockAncestorClosed ==
    \A h \in ba.inBlock : \A a \in CalculateMemPoolAncestors(h) :
        /\ a \in ba.inBlock
        /\ PositionOf(ba.vtx, a) < PositionOf(ba.vtx, h)

\* In the middle of the selection, inBlock holds a transaction with ancestors
\* while other transactions are still to be considered.
C3_DescendantAddedMidLoop ==
    /\ pc = "loop"
    /\ addPackageTxsRunning(ba)
    /\ \E h \in ba.inBlock : CalculateMemPoolAncestors(h) # {}

\* C4: in every returned template, proof-of-work or proof-of-stake, the first
\* entry of vTxFees is the negated sum of the other entries.
C4_CoinbaseFeeIsNegatedSum ==
    ret = "template" => ba.vTxFees[1] = -SumFrom(ba.vTxFees, 2)

\* A proof-of-stake template with two or more paying mempool transactions.
C4_StakeTemplateWithFees ==
    /\ ret = "template"
    /\ IsProofOfStake(ba.vtx)
    /\ Len(ba.vTxFees) >= 3
    /\ ba.vTxFees[1] < 0

\* C5 as stated: every template CreateNewBlock returns carries the merkle root
\* of its transaction list in its header.
C5_MerkleRootAtReturn ==
    (pc = "returned" /\ ret = "template") => ba.hashMerkleRoot = BlockMerkleRoot(ba.vtx)

\* C5, amended: CreateNewBlock returns every template with a null merkle root;
\* the header's merkle root is the root of the transaction list once
\* IncrementExtraNonce has been applied to the template.
C5_MerkleRootAfterExtraNonce ==
    /\ (pc = "returned" /\ ret = "template") => ba.hashMerkleRoot = NullHash
    /\ pc = "extranonce" => ba.hashMerkleRoot = BlockMerkleRoot(ba.vtx)

\* IncrementExtraNonce ran on a template that holds mempool transactions.
C5_ExtraNonceOnFilledTemplate ==
    /\ pc = "extranonce"
    /\ ba.nBlockTx >= 1
    /\ ba.hashMerkleRoot # NullHash

\* C6 as stated: in a returned proof-of-stake template the header's time is the
\* time of the coinstake, whatever the times of the mempool transactions.
C6_HeaderTimeIsCoinStakeTime ==
    (ret = "template" /\ IsProofOfStake(ba.vtx)) => ba.nTime = ba.vtx[2].nTime

\* The last call was made with a wallet and had no valid coinstake: the search
\* window had not advanced, CreateCoinStake failed, or the coinstake's time was
\* not above the median time past.
NoValidCoinStake ==
    /\ call.pwallet
    /\ \/ ~CoinStakeSearched(MaskTime(pre.now), pre.state.nLastCoinStakeSearchTime)
       \/ ~call.found
       \/ call.csTime < tip.mtp + 1

\* C7: a call with a wallet that has no valid coinstake returns no template and
\* leaves *pfPoSCancel true.
C7_NoCoinStakeCancels ==
    (ret # "none" /\ NoValidCoinStake) => (ret = "null" /\ fPoSCancel)

\* CreateCoinStake succeeded in an advanced search window, but the coinstake's
\* time is not above the median time past: the call was cancelled.
C7_CancelledOnMedianTimePast ==
    /\ call.pwallet /\ call.found
    /\ CoinStakeSearched(MaskTime(pre.now), pre.state.nLastCoinStakeSearchTime)
    /\ call.csTime < tip.mtp + 1
    /\ ret = "null"

\* C8 as stated: a cancelled proof-of-stake call leaves the process-wide state
\* (search interval, last search time, last-block statistics) as it found it.
C8_CancelLeavesStateUnchanged ==
    (call.pwallet /\ ret = "null") => ProcessWideState = pre.state

\* C8, amended: a cancelled proof-of-stake call leaves the last-block
\* statistics unchanged.  It leaves the two search statics unchanged only when
\* the search window had not advanced; otherwise the last search time becomes
\* the masked current time and the interval the distance between the two.
C8_CancelUpdatesSearchStatics ==
    (call.pwallet /\ ret = "null") =>
        /\ m_last_block_num_txs = pre.state.m_last_block_num_txs
        /\ m_last_block_weight = pre.state.m_last_block_weight
        /\ IF CoinStakeSearched(MaskTime(pre.now), pre.state.nLastCoinStakeSearchTime)
           THEN /\ LastCoinStakeSearchTime = MaskTime(pre.now)
                /\ nLastCoinStakeSearchInterval =
                       MaskTime(pre.now) - pre.state.nLastCoinStakeSearchTime
           ELSE /\ LastCoinStakeSearchTime = pre.state.nLastCoinStakeSearchTime
                /\ nLastCoinStakeSearchInterval = pre.state.nLastCoinStakeSearchInterval

\* A call was cancelled after a search, and the search interval changed.
C8_CancelledAfterSearch ==
    /\ call.pwallet /\ ret = "null"
    /\ CoinStakeSearched(MaskTime(pre.now), pre.state.nLastCoinStakeSearchTime)
    /\ nLastCoinStakeSearchInterval # pre.state.nLastCoinStakeSearchInterval
    /\ m_last_block_num_txs >= 0

\* C9 as stated: ProcessBlockFound never hands a block to ProcessNewBlock whose
\* prev-hash is not the active tip at the moment of the hand-off.
C9_HandoffOnActiveTip ==
    \A h \in handoffs : h.prev = h.tipAtHandoff

\* C9, amended: ProcessBlockFound hands a block to ProcessNewBlock only if its
\* prev-hash was the active tip when it was tested under cs_main; the tip may
\* have moved on by the hand-off.
C9_HandoffCheckedUnderLock ==
    \A h \in handoffs : h.prev = h.tipAtCheck

\* A block passed the test under cs_main and was stale when handed off.
C9_StaleHandoff ==
    \E h \in handoffs : h.prev = h.tipAtCheck /\ h.prev # h.tipAtHandoff

\* C10 as stated: whatever the interleaving of start requests, at most one
\* miner thread exists and no start replaces a joinable thread handle.
C10_SingleMinerThread ==
    /\ Cardinality(LiveMiners) <= 1
    /\ ~terminated

\* In this step worker w returns from InterruptStaking.
InterruptStakingReturns(w) == rpc[w].pc = "interruptJoin" /\ rpc'[w].pc = "stop"

\* In this step worker w returns from a staking request with generate=false:
\* after the last statement of the handler, or at once when no wallet is loaded.
StopRequestReturns(w) ==
    /\ rpc'[w].pc = "idle"
    /\ ~rpc'[w].fGenerate
    /\ rpc[w].pc = "reset" \/ (rpc[w].pc = "idle" /\ requests' = requests + 1)

\* C11 as stated: when InterruptStaking returns, and when a staking request
\* with generate=false returns, the flag is false and the thread handle is not
\* joinable; StopStaking never changes the flag.
C11_StoppedAtReturn ==
    [][/\ \A w \in Workers :
            InterruptStakingReturns(w) \/ StopRequestReturns(w)
                => ~fEnableStaking' /\ ~joinable'
       /\ \A w \in Workers :
            rpc[w].pc = "stop" /\ rpc'[w].pc = "reset" => fEnableStaking' = fEnableStaking]_vars

\* C12 as stated: a miner that is inside a sleep when InterruptStaking has
\* cleared the flag and waits for it leaves the sleep by exiting, without the
\* sleep's duration elapsing.
C12_InterruptWakesSleeper ==
    [][\A w \in Workers : \A t \in Threads :
          /\ rpc[w].pc = "interruptJoin"
          /\ threadStakeMiner = t
          /\ miners[t].pc = "sleep"
          /\ miners'[t] # miners[t]
          => miners'[t].pc = "exited"]_vars

\* No miner thread is inside PoSMiner (or the process has been terminated).
NoMinerRunning == LiveMiners = {} \/ terminated

\* C13: once shutdown is requested, or once the flag is false and stays false,
\* the miner eventually returns, whatever it was doing, given that its sleeps
\* and external calls return.
C13_MinerReturns ==
    /\ fShutdown ~> NoMinerRunning
    /\ <>[](~fEnableStaking) => <>[]NoMinerRunning

\* A miner thread has returned on a test of the flag while the flag is false.
C13_ReturnedOnStop ==
    \E t \in Threads : miners[t] = MinerExited("stopped") /\ ~fEnableStaking /\ ~fShutdown

\* The step in which thread t tests the readiness condition.
ReadinessCheck(t) == miners[t].pc = "net" /\ miners'[t] # miners[t]

\* After a readiness check of thread t that saw initial block download: the
\* miner is in the 10 s sleep that leads back to the check, or back at the
\* check, and the check itself set the synchronizing warning.
WaitsForSync(t) ==
    /\ \/ miners'[t].pc = "sleep" /\ miners'[t].sleep = "10s" /\ miners'[t].resume = "net"
       \/ miners'[t].pc = "net" /\ ~ReadinessCheck(t)
    /\ ReadinessCheck(t) => strMintWarning' = "sync"

\* C14 as stated: on every network, a miner whose readiness check saw initial
\* block download sleeps 10 s with the synchronizing warning and builds no
\* template before it has tested again.
C14_IBDWaitsOnEveryNetwork ==
    [][\A t \in Threads : miners'[t].ibd => WaitsForSync(t)]_vars

\* C14, amended: the same on every network other than regtest (on regtest the
\* miner leaves the readiness loop at once), for a miner that has not returned
\* because staking was stopped or shutdown requested.
C14_IBDWaitsExceptRegtest ==
    [][\A t \in Threads : miners'[t].ibd /\ network # "regtest" => WaitsForSync(t)]_vars

\* On the main network a miner sleeps 10 s after a readiness check that saw
\* initial block download, with the synchronizing warning set.
C14_SleepingInIBD ==
    \E t \in Threads :
        /\ network = "main"
        /\ miners[t].ibd
        /\ miners[t].pc = "sleep" /\ miners[t].sleep = "10s" /\ miners[t].resume = "net"
        /\ strMintWarning = "sync"

\* C15 as stated: the miner is in the 60 s cooldown only after a submission
\* through ProcessBlockFound that succeeded.
C15_CooldownOnlyAfterSuccess ==
    \A t \in Threads :
        miners[t].pc = "sleep" /\ miners[t].sleep = "cooldown" => miners[t].found = "ok"

\* In this step caller c runs IncrementExtraNonce.
NonceCall(c) == callers[c].pc = "template" /\ callers'[c].pc = "called"

\* The reset rule of a call by c: the counter restarts at 1 exactly when the
\* block's prev-hash is not the stored one, which is then stored; otherwise
\* the counter goes up by one.  The value is written to the coinbase.
NonceResetRule(c) ==
    LET prev == callers[c].pblock.hashPrevBlock
        value == callers'[c].nExtraNonce
    IN /\ hashPrevBlockStatic' = prev
       /\ value = IF prev # hashPrevBlockStatic THEN 1 ELSE callers[c].nExtraNonce + 1
       /\ callers'[c].pblock.coinbaseTx.scriptSig = <<tip.nHeight + 1, value>>

\* C16 as stated: in any serialized sequence of calls by one or several
\* callers, the values one caller writes for blocks with the same prev-hash
\* are strictly increasing, and the counter is reset only when the block's
\* prev-hash differs from the stored one, which is then set.
C16_IncreasingPerPrevHash ==
    [][\A c \in Callers : NonceCall(c) =>
          /\ NonceResetRule(c)
          /\ callers'[c].nExtraNonce
                > LastWrittenFor(c, callers[c].pblock.hashPrevBlock)]_vars

\* C16, amended: the reset rule holds for every call; the values one caller
\* writes are strictly increasing within a run of calls, by whatever caller,
\* for the same prev-hash.  A call for another prev-hash in between restarts
\* every caller's values for the first prev-hash at 1.
C16_IncreasingWithinRun ==
    [][\A c \in Callers : NonceCall(c) =>
          /\ NonceResetRule(c)
          /\ callers[c].pblock.hashPrevBlock = hashPrevBlockStatic
                => callers'[c].nExtraNonce > nonceWritten[c].run]_vars

\* Both callers have written within one run for the same prev-hash, one of
\* them twice.
C16_TwoCallersOneRun ==
    \E c \in Callers, d \in Callers :
        /\ c # d
        /\ nonceWritten[c].run = 2
        /\ nonceWritten[d].run = 1
        /\ callers[c].pblock.hashPrevBlock = callers[d].pblock.hashPrevBlock

\* ---- getblocktemplate
\* A step in which worker w's call ends, and one in which it ends past the
\* rule check, where the template is looked up or built.
GbtReturns(w) == gbt[w].pc # "idle" /\ gbt'[w].pc = "idle"
GbtPastRules(w) ==
    /\ gbt[w].pc = "rules"
    /\ gbt'[w].pc = "idle"
    /\ gbtResponse'.text # "RPC_INVALID_PARAMETER"

\* C17: in template mode CreateNewBlock is called if and only if the tip is
\* not the cached template's prev tip, or the mempool counter is not the
\* cached snapshot and more than 5 s have passed since the last build;
\* otherwise the cached template is returned and the statics stay as they
\* are; a returned template's previousblockhash is the current tip.
C17_RebuildIffStale ==
    [][\A w \in Workers : GbtPastRules(w) =>
        /\ gbtResponse'.rebuilt <=>
              \/ gbtCache.pindexPrev # tip.hash
              \/ /\ nTransactionsUpdated # gbtCache.nTransactionsUpdatedLast
                 /\ gbtCache.age > TemplateMaxAge
        /\ ~gbtResponse'.rebuilt =>
              /\ gbtCache' = gbtCache
              /\ gbtResponse'.kind = "template"
              /\ gbtResponse'.previousblockhash = gbtCache.pblocktemplate.hashPrevBlock
        /\ gbtResponse'.kind = "template" => gbtResponse'.previousblockhash = tip.hash]_vars

\* The cached template was returned although the mempool counter had moved.
C17_CachedDespiteUpdate ==
    /\ gbtResponse.kind = "template"
    /\ ~gbtResponse.rebuilt
    /\ nTransactionsUpdated # gbtCache.nTransactionsUpdatedLast

\* C18: a long-poll leaves its wait only when the best block is not the
\* watched hash, or at least 60 s have passed since the wait began and the
\* mempool counter is not the one of the longpollid, or the RPC server is not
\* running; nothing is returned from inside the wait; a waiting call does not
\* hold cs_main, and the call holds it again where the response is built.
C18_LongPollWaits ==
    [][\A w \in Workers :
        /\ (gbt[w].pc = "lpwait" /\ gbt'[w].pc # "lpwait") =>
              /\ \/ g_best_block # gbt[w].watched
                 \/ /\ gbt[w].waited >= LongPollFirstCheck
                    /\ nTransactionsUpdated # gbt[w].counterLP
                 \/ ~fRPCRunning
              /\ gbt'[w].pc = "lpexit"
              /\ gbtResponse' = NoResponse
        /\ gbt'[w].pc \in {"lpwait", "lpexit"} => cs_main' # w
        /\ gbt'[w].pc = "rules" => cs_main' = w
        /\ (gbtResponse'.kind = "template" /\ gbtResponse'.worker = w) =>
              gbt[w].pc = "rules" /\ cs_main = w]_vars

\* A long-poll has waited a minute for a block that did not come, the mempool
\* has changed meanwhile, and the call is about to leave the wait; cs_main is
\* free.
C18_MinuteWaited ==
    \E w \in Workers :
        /\ gbt[w].pc = "lpwait"
        /\ gbt[w].waited >= LongPollFirstCheck
        /\ LongPollTimedOut(gbt[w])
        /\ nTransactionsUpdated # gbt[w].counterLP
        /\ g_best_block = gbt[w].watched
        /\ fRPCRunning
        /\ cs_main = "free"

\* ---- SpecLongPoll: calls in template mode, and a woken or runnable RPC
\* worker runs
\* A call that waits in the long-poll is woken by the notification of
\* g_best_block_cv or by the timeout of wait_until, and a call that waits for
\* cs_main gets it when it is free; the holder of cs_main runs on.
TemplateStep(w) ==
    \/ GbtEnterTemplate(w)
    \/ LongPollStep(w)
    \/ LongPollReenter(w)
    \/ GbtTemplate(w)

NextLongPoll ==
    \/ BlockConnected
    \/ NotifyBestBlock
    \/ MempoolUpdated
    \/ StopRPC
    \/ GbtTick
    \/ GbtEnterTemplate("w1")
    \/ LongPollStep("w1")
    \/ LongPollReenter("w1")
    \/ GbtTemplate("w1")

SpecLongPoll == InitGBT /\ [][NextLongPoll]_vars /\ WF_vars(TemplateStep("w1"))

\* The best block has moved on from hash h: it is another block, and not one
\* before h.
BestBlockPast(h) == g_best_block # h /\ g_best_block[2] > h[2]

\* C19: a call waiting in the long-poll ends once the best block has moved on
\* from the watched hash or the RPC server has stopped; a call that finds the
\* server stopped when it has cs_main again ends with RPC_CLIENT_NOT_CONNECTED
\* and not with a template.
C19_LongPollEnds ==
    /\ (gbt["w1"].pc = "lpwait" /\ (BestBlockPast(gbt["w1"].watched) \/ ~fRPCRunning))
          ~> (gbt["w1"].pc = "idle")
    /\ [][\A w \in Workers :
            (gbt[w].pc = "lpexit" /\ gbt'[w].pc # "lpexit" /\ ~fRPCRunning) =>
                /\ gbt'[w].pc = "idle"
                /\ gbtResponse'.kind = "error"
                /\ gbtResponse'.text = "RPC_CLIENT_NOT_CONNECTED"]_vars

\* On regtest, where the peers are not counted, a call has ended with
\* RPC_CLIENT_NOT_CONNECTED: a long-poll that found the server stopped.
C19_EndedByStop ==
    /\ gbtResponse.kind = "error"
    /\ gbtResponse.text = "RPC_CLIENT_NOT_CONNECTED"
    /\ network = "regtest"
    /\ ~fRPCRunning

\* C20: a decoded proposal is answered in this order: a block the block index
\* knows gives duplicate, duplicate-invalid or duplicate-inconclusive;
\* otherwise a prev-hash that is not the tip gives
\* inconclusive-not-best-prevblk; otherwise the answer is the BIP22
\* translation of TestBlockValidity's state; the tip, the best block, the
\* mempool and the cached template are as before.
C20_ProposalOrder ==
    [][gbtResponse'.proposal # NoProposal =>
        LET p == gbtResponse'.proposal
            answer == IF gbtResponse'.kind = "error" THEN "throw" ELSE gbtResponse'.text
        IN /\ gbtResponse'.kind = "error" => gbtResponse'.text = "RPC_VERIFY_ERROR"
           /\ IF p.status # "absent"
              THEN /\ answer \in {"duplicate", "duplicate-invalid", "duplicate-inconclusive"}
                   /\ answer = DuplicateResult(p.status)
              ELSE IF p.hashPrevBlock # tip.hash
              THEN answer = "inconclusive-not-best-prevblk"
              ELSE answer = BIP22ValidationResult(p.state)
           /\ UNCHANGED <<tip, g_best_block, mempool, nTransactionsUpdated, gbtCache,
                          cs_main>>]_vars

\* A proposal on the tip that the block index does not know was validated and
\* rejected, on a node that holds a cached template.
C20_ValidatedProposal ==
    /\ gbtResponse.kind = "proposal"
    /\ gbtResponse.proposal.status = "absent"
    /\ gbtResponse.proposal.hashPrevBlock = tip.hash
    /\ gbtResponse.text = "bad-txns"
    /\ gbtCache.pblocktemplate # NoTemplate

\* ------------------------------------------------- SpecSubmit: submitblock
\* At most MaxEvents BlockChecked events are delivered while one listener is
\* registered.
MaxEvents == 2

\* submitblock_StateCatcher::BlockChecked(block, stateIn) on catcher c: an event
\* for another hash is ignored.  The variant records every event.
StateCatcherHearsAll(c, h, stateIn) == [c EXCEPT !.found = TRUE, !.state = stateIn]

StateCatcherBlockChecked(c, h, stateIn) ==
    IF h # c.hash THEN c ELSE [c EXCEPT !.found = TRUE, !.state = stateIn]

\* The index entry of the submitted hash at the first lookup.
IndexStatuses == {"absent", "valid-scripts", "failed", "other"}

\* What submitblock answers before it registers its listener: "" when it goes on.
SubmitEarlyResult(decoded, hasCoinbase, status) ==
    IF ~decoded THEN "RPC_DESERIALIZATION_ERROR: Block decode failed"
    ELSE IF ~hasCoinbase THEN "RPC_DESERIALIZATION_ERROR: Block does not start with a coinbase"
    ELSE IF status = "valid-scripts" THEN "duplicate"
    ELSE IF status = "failed" THEN "duplicate-invalid"
    ELSE ""

\* What submitblock answers after it unregistered its listener.
SubmitLateResult(c, accepted, new_block) ==
    IF ~new_block /\ accepted THEN "duplicate"
    ELSE IF ~c.found THEN "inconclusive"
    ELSE BIP22ValidationResult(c.state)

\* submitblock from its entry to RegisterSharedValidationInterface.  The
\* witness structures patched in between have no part in the answer.
SubmitEnter ==
    /\ submitCall.pc \in {"idle", "returned"}
    /\ requests < MaxRequests
    /\ requests' = requests + 1
    /\ \E decoded \in BOOLEAN, hasCoinbase \in BOOLEAN, h \in BlockHashes,
          status \in IndexStatuses :
        LET early == SubmitEarlyResult(decoded, hasCoinbase, status) IN
        /\ ~decoded => (~hasCoinbase /\ status = "absent" /\ h = tip.hash)
        /\ ~hasCoinbase => (status = "absent" /\ h = tip.hash)
        /\ submitCall' = IF early # ""
                         THEN [SubmitIdle EXCEPT !.pc = "returned", !.result = early]
                         ELSE [SubmitIdle EXCEPT !.pc = "registered", !.hash = h]
    /\ UNCHANGED <<asmVars, envVars, nonceVars, gbtVars, generateCall, blockCall>>
    /\ UNCHANGED <<fEnableStaking, threadStakeMiner, miners, rpc, handoffs, terminated>>

\* The validation interface delivers BlockChecked(h, stateIn), from the
\* ProcessNewBlock of this call or from the validation of another block.
BlockChecked ==
    /\ submitCall.pc = "registered"
    /\ Len(submitCall.own) + submitCall.others < MaxEvents
    /\ \E h \in BlockHashes, stateIn \in ValidationStates :
        LET c == StateCatcherBlockChecked(submitCall, h, stateIn) IN
        submitCall' = IF h = submitCall.hash
                      THEN [c EXCEPT !.own = Append(@, stateIn)]
                      ELSE [c EXCEPT !.others = @ + 1]
    /\ UNCHANGED <<asmVars, stakeVars, envVars, nonceVars, gbtVars, generateCall, blockCall>>

\* ProcessNewBlock returns accepted and has set new_block; the listener is
\* unregistered and the answer is given.
SubmitReturn ==
    /\ submitCall.pc = "registered"
    /\ \E accepted \in BOOLEAN, new_block \in BOOLEAN :
        submitCall' = [submitCall EXCEPT !.pc = "returned",
                                         !.accepted = accepted,
                                         !.new_block = new_block,
                                         !.result = SubmitLateResult(submitCall, accepted,
                                                                     new_block)]
    /\ UNCHANGED <<asmVars, stakeVars, envVars, nonceVars, gbtVars, generateCall, blockCall>>

NextSubmit ==
    \/ SubmitEnter
    \/ BlockChecked
    \/ SubmitReturn

SpecSubmit == InitGBT /\ [][NextSubmit]_vars

\* The call registered its listener and has returned.
SubmitReturned(c) == c.pc = "returned" /\ c.hash # NullHash

\* C21: a submitblock call that registered its listener answers "duplicate"
\* when ProcessNewBlock accepted a block that was not new; otherwise
\* "inconclusive" when no BlockChecked event for its hash was delivered while
\* the listener was registered, and otherwise the BIP22 translation of the
\* last state delivered for its hash.  An event for another hash leaves the
\* listener as it was.
C21_SubmitResult ==
    [][/\ SubmitReturned(submitCall') =>
            submitCall'.result =
                IF submitCall'.accepted /\ ~submitCall'.new_block THEN "duplicate"
                ELSE IF submitCall'.own = << >> THEN "inconclusive"
                ELSE BIP22ValidationResult(submitCall'.own[Len(submitCall'.own)])
       /\ (submitCall.pc = "registered" /\ submitCall'.others > submitCall.others) =>
            /\ submitCall'.found = submitCall.found
            /\ submitCall'.state = submitCall.state]_vars

\* The answer is the translation of the state delivered for the call's hash
\* although an event for another hash was delivered as well.
C21_TranslatedDespiteOthers ==
    /\ SubmitReturned(submitCall)
    /\ submitCall.others > 0
    /\ Len(submitCall.own) = 1
    /\ submitCall.own[1].reason = "bad-txns"
    /\ submitCall.result = "bad-txns"

\* C21 as stated: the answer is "inconclusive" or the translation, whatever
\* ProcessNewBlock returned.
C21_InconclusiveOrTranslated ==
    SubmitReturned(submitCall) =>
        submitCall.result =
            IF submitCall.own = << >> THEN "inconclusive"
            ELSE BIP22ValidationResult(submitCall.own[Len(submitCall.own)])

\* ------------------------------------- SpecGenerate: generateBlocks, fairly
\* A call asks for at most MaxGenerate blocks with at most MaxTries tries, and
\* the nonce, a uint32_t in the code, ends at NonceLimit.
MaxGenerate == 2
MaxTries == 3
NonceLimit == 2

\* block.GetHash(): the header's hash changes with the nonce.
GetHash(b) == <<"block", b.nHeight, b.nNonce>>

\* The condition of the while loop of GenerateBlock; pow: CheckProofOfWork
\* holds for the block's hash.  The variant does not ask ShutdownRequested().
NonceLoopIgnoresShutdown(max_tries, nNonce, pow, shutdown) ==
    max_tries > 0 /\ nNonce < NonceLimit /\ ~pow

NonceLoopRuns(max_tries, nNonce, pow, shutdown) ==
    max_tries > 0 /\ nNonce < NonceLimit /\ ~pow /\ ~shutdown

\* generateBlocks from its entry to the first test of its while loop.
GenerateEnter ==
    /\ generateCall.pc \in {"idle", "returned", "thrown"}
    /\ requests < MaxRequests
    /\ requests' = requests + 1
    /\ \E nGenerate \in 0..MaxGenerate, nMaxTries \in 0..MaxTries :
        generateCall' = [GenerateIdle EXCEPT !.pc = "loop",
                                             !.nGenerate = nGenerate,
                                             !.nHeight = tip.nHeight,
                                             !.nHeightEnd = tip.nHeight + nGenerate,
                                             !.nMaxTries = nMaxTries,
                                             !.maxTries0 = nMaxTries]
    /\ UNCHANGED <<asmVars, envVars, nonceVars, gbtVars, submitCall, blockCall>>
    /\ UNCHANGED <<fEnableStaking, threadStakeMiner, miners, rpc, handoffs, terminated>>

\* The test of the while loop of generateBlocks, CreateNewBlock, and
\* GenerateBlock up to its own loop: IncrementExtraNonce under cs_main.
\* created: CreateNewBlock returned a template, with nNonce 0.
GenerateLoop ==
    /\ generateCall.pc = "loop"
    /\ IF generateCall.nHeight < generateCall.nHeightEnd /\ ~fShutdown
       THEN \E created \in BOOLEAN :
            IF ~created
            THEN /\ generateCall' = [generateCall EXCEPT !.pc = "thrown",
                                                         !.result = "RPC_INTERNAL_ERROR"]
                 /\ UNCHANGED hashPrevBlockStatic
            ELSE LET n == ExtraNonceNext(hashPrevBlockStatic, tip.hash,
                                         generateCall.nExtraNonce) IN
                 /\ generateCall' =
                        [generateCall EXCEPT !.pc = "mining",
                                             !.nExtraNonce = n,
                                             !.pblock = [hashPrevBlock |-> tip.hash,
                                                         nHeight |-> tip.nHeight + 1,
                                                         nNonce |-> 0]]
                 /\ hashPrevBlockStatic' = tip.hash
       ELSE /\ generateCall' = [generateCall EXCEPT !.pc = "returned", !.result = "hashes"]
            /\ UNCHANGED hashPrevBlockStatic
    /\ UNCHANGED <<stakeVars, envVars, nonceVars, gbtVars, submitCall, blockCall>>
    /\ UNCHANGED <<mempool, nBlockMaxWeight, tip, now, searchInit, nLastCoinStakeSearchTime,
                   nLastCoinStakeSearchInterval, m_last_block_num_txs, m_last_block_weight,
                   nExtraNonce, pc, ba, call, fPoSCancel, ret, pre>>

\* One test of the while loop of GenerateBlock, with its body when it runs.
GenerateNonceStep ==
    /\ generateCall.pc = "mining"
    /\ \E pow \in BOOLEAN :
        generateCall' =
            IF NonceLoopRuns(generateCall.nMaxTries, generateCall.pblock.nNonce, pow, fShutdown)
            THEN [generateCall EXCEPT !.pblock.nNonce = @ + 1,
                                      !.nMaxTries = @ - 1,
                                      !.increments = @ + 1]
            ELSE [generateCall EXCEPT !.pc = "mined"]
    /\ UNCHANGED <<asmVars, stakeVars, envVars, nonceVars, gbtVars, submitCall, blockCall>>

\* GenerateBlock after its loop, and generateBlocks up to the next test of its
\* own.  accepted: ProcessNewBlock returned true, and the block is the new tip.
GenerateBlockLeave ==
    /\ generateCall.pc = "mined"
    /\ IF generateCall.nMaxTries = 0 \/ fShutdown
       THEN /\ generateCall' = [generateCall EXCEPT !.pc = "returned", !.result = "hashes"]
            /\ UNCHANGED tip
       ELSE IF generateCall.pblock.nNonce = NonceLimit
       THEN /\ generateCall' = [generateCall EXCEPT !.pc = "loop"]
            /\ UNCHANGED tip
       ELSE \E accepted \in BOOLEAN :
            IF ~accepted
            THEN /\ generateCall' = [generateCall EXCEPT !.pc = "thrown",
                                                         !.result = "RPC_INTERNAL_ERROR"]
                 /\ UNCHANGED tip
            ELSE LET block_hash == GetHash(generateCall.pblock) IN
                 /\ generateCall' =
                        [generateCall EXCEPT !.pc = "loop",
                                             !.nHeight = @ + 1,
                                             !.blockHashes = Append(@, block_hash),
                                             !.accepted = @ \cup {GetHash(generateCall.pblock)}]
                 /\ tip' = [NextTip(tip) EXCEPT !.hash = block_hash]
    /\ UNCHANGED <<stakeVars, envVars, nonceVars, gbtVars, submitCall, blockCall>>
    /\ UNCHANGED <<mempool, nBlockMaxWeight, now, searchInit, nLastCoinStakeSearchTime,
                   nLastCoinStakeSearchInterval, m_last_block_num_txs, m_last_block_weight,
                   hashPrevBlockStatic, nExtraNonce, pc, ba, call, fPoSCancel, ret, pre>>

\* Any step of the thread inside generateBlocks.
GenerateStep ==
    \/ GenerateLoop
    \/ GenerateNonceStep
    \/ GenerateBlockLeave

NextGenerate ==
    \/ GenerateEnter
    \/ GenerateStep
    \/ StartShutdown

\* The thread that runs generateBlocks is scheduled again and again.
SpecGenerate == InitGBT /\ [][NextGenerate]_vars /\ WF_vars(GenerateStep)

GenerateRunning == generateCall.pc \in {"loop", "mining", "mined"}

MaxUserTxs == 2
UserTxs == {[kind |-> "user", h |-> i] : i \in 1..MaxUserTxs}
UserTxLists ==
    {l \in UNION {[1..n -> UserTxs] : n \in 0..MaxUserTxs} :
        \A i \in 1..Len(l), j \in 1..Len(l) : l[i] = l[j] => i = j}

\* GetWitnessCommitmentIndex(block): the place, counted from 0, of the last
\* commitment output of the coinbase, or NO_WITNESS_COMMITMENT.
NO_WITNESS_COMMITMENT == 0 - 1
GetWitnessCommitmentIndex(vout) ==
    LET places == {i \in 1..Len(vout) : vout[i] = "commitment"}
    IN IF places = {} THEN NO_WITNESS_COMMITMENT
       ELSE (CHOOSE i \in places : \A j \in places : j <= i) - 1

\* tx.vout.erase(tx.vout.begin() + idx): what it can leave.  With idx the
\* place of an output that output is removed.  With NO_WITNESS_COMMITMENT the
\* iterator is before begin() and the behaviour is undefined: the process
\* ends, or every output is moved one place down, the first one out of the
\* vector's storage, and the vector is one shorter.
EraseOutput(vout, idx) ==
    IF idx >= 0 /\ idx < Len(vout)
    THEN {[crashed |-> FALSE,
           vout |-> [i \in 1..(Len(vout) - 1) |-> IF i <= idx THEN vout[i] ELSE vout[i + 1]]]}
    ELSE {[crashed |-> TRUE, vout |-> vout],
          [crashed |-> FALSE, vout |-> [i \in 1..(Len(vout) - 1) |-> vout[i + 1]]]}

\* GenerateCoinbaseCommitment(block, prev_block, consensus): a commitment
\* output is added to a coinbase that has none.
GenerateCoinbaseCommitment(vout) ==
    IF GetWitnessCommitmentIndex(vout) = NO_WITNESS_COMMITMENT
    THEN Append(vout, "commitment") ELSE vout

\* The coinbase CreateNewBlock leaves in a template built from an empty
\* mempool: the payout, and a commitment output when segwit is active at the
\* previous block.
TemplateCoinbase(segwit) ==
    [kind |-> "coinbase", h |-> 0,
     vout |-> IF segwit THEN GenerateCoinbaseCommitment(<<"reward">>) ELSE <<"reward">>]

\* generateblock up to its call of RegenerateCommitments: CreateNewBlock on an
\* empty mempool, and the transactions of the request behind the coinbase.
BlockEnter ==
    /\ blockCall.pc \in {"idle", "returned"}
    /\ requests < MaxRequests
    /\ requests' = requests + 1
    /\ \E created \in BOOLEAN, txs \in UserTxLists :
        /\ ~created => txs = << >>
        /\ blockCall' =
            IF ~created
            THEN [BlockIdle EXCEPT !.pc = "returned", !.result = "RPC_INTERNAL_ERROR"]
            ELSE [BlockIdle EXCEPT !.pc = "built",
                                   !.segwit = tip.segwit,
                                   !.hashPrevBlock = tip.hash,
                                   !.vtx = <<TemplateCoinbase(tip.segwit)>> \o txs]
    /\ UNCHANGED <<asmVars, envVars, nonceVars, gbtVars, submitCall, generateCall>>
    /\ UNCHANGED <<fEnableStaking, threadStakeMiner, miners, rpc, handoffs, terminated>>

\* RegenerateCommitments(block, chainman).
RegenerateCommitments ==
    /\ blockCall.pc = "built"
    /\ \E e \in EraseOutput(blockCall.vtx[1].vout,
                            GetWitnessCommitmentIndex(blockCall.vtx[1].vout)) :
        blockCall' =
            IF e.crashed THEN [blockCall EXCEPT !.pc = "crashed"]
            ELSE LET tx == [blockCall.vtx[1] EXCEPT !.vout = GenerateCoinbaseCommitment(e.vout)]
                     vtx1 == [blockCall.vtx EXCEPT ![1] = tx]
                 IN [blockCall EXCEPT !.pc = "regenerated",
                                      !.vtx = vtx1,
                                      !.hashMerkleRoot = BlockMerkleRoot(vtx1)]
    /\ UNCHANGED <<asmVars, stakeVars, envVars, nonceVars, gbtVars, submitCall, generateCall>>

\* The rest of generateblock: TestBlockValidity, then GenerateBlock with the
\* default number of tries.  mined: a nonce was found and the block accepted.
BlockLeave ==
    /\ blockCall.pc = "regenerated"
    /\ \E valid \in BOOLEAN, mined \in BOOLEAN :
        /\ ~valid => ~mined
        /\ blockCall' = [blockCall EXCEPT
                            !.pc = "returned",
                            !.result = IF ~valid THEN "RPC_VERIFY_ERROR"
                                       ELSE IF ~mined THEN "RPC_MISC_ERROR"
                                       ELSE "hash"]
    /\ UNCHANGED <<asmVars, stakeVars, envVars, nonceVars, gbtVars, submitCall, generateCall>>

NextBlock ==
    \/ BlockEnter
    \/ RegenerateCommitments
    \/ BlockLeave
    \/ TipAdvance

SpecBlock == InitGBT /\ [][NextBlock]_vars

\* The commitment outputs of a coinbase.
CommitmentOutputs(tx) == {i \in 1..Len(tx.vout) : tx.vout[i] = "commitment"}

\* C23: RegenerateCommitments returns for every block generateblock hands it,
\* whether or not segwit is active at the block's prev block, and leaves the
\* merkle root of the block's transactions in the header and exactly one
\* witness-commitment output in the coinbase.
C23_RegeneratedBlock ==
    /\ blockCall.pc # "crashed"
    /\ blockCall.pc = "regenerated" =>
        /\ blockCall.hashMerkleRoot = BlockMerkleRoot(blockCall.vtx)
        /\ Cardinality(CommitmentOutputs(blockCall.vtx[1])) = 1

\* C24: a CreateNewBlock call without a wallet asks TestBlockValidity about
\* the assembled block, throws and returns no template when the answer is no,
\* and returns the template when it is yes; a call with a wallet that is not
\* cancelled returns its template without asking.
C24_ValidityOnlyForProofOfWork ==
    ret \in {"template", "throw"} =>
        IF call.pwallet
        THEN ba.tested = "unasked" /\ ret = "template"
        ELSE /\ ba.tested # "unasked"
             /\ (ba.tested = "invalid") <=> (ret = "throw")
             /\ ret = "throw" => pc = "idle"

\* A call without a wallet selected transactions and threw.
C24_ProofOfWorkRejected ==
    /\ ret = "throw"
    /\ ~call.pwallet
    /\ ba.tested = "invalid"
    /\ ba.nBlockTx > 0

\* ------------------------------ SpecMinFee: low and prioritised transactions
\* Transactions that pay less than the block minimum fee rate for their size;
\* one of them was prioritised, so its modified fee is above the rate.
LowFeeProfiles ==
    { [size |-> 250,  nTxWeight |-> 1000, fee |-> 100, modFee |-> 100,  sigops |-> 4,
       nTime |-> 5, nLockTime |-> 0, witness |-> FALSE],
      [size |-> 250,  nTxWeight |-> 1000, fee |-> 100, modFee |-> 2500, sigops |-> 4,
       nTime |-> 5, nLockTime |-> 0, witness |-> FALSE],
      [size |-> 1000, nTxWeight |-> 4000, fee |-> 500, modFee |-> 500,  sigops |-> 4,
       nTime |-> 5, nLockTime |-> 0, witness |-> FALSE] }

LowFeeMempools ==
    { [h \in Txs |-> MempoolEntry(par, pr, h)] : par \in ParentSets,
                                                 pr \in [Txs -> LowFeeProfiles] }

InitMinFee ==
    /\ mempool \in LowFeeMempools
    /\ nBlockMaxWeight \in {ClampBlockMaxWeight(o) : o \in BlockMaxWeightOptions}
    /\ tip \in {t \in Tips : t.mtp = 20}
    /\ now = 40
    /\ searchInit = TRUE
    /\ nLastCoinStakeSearchTime = 16
    /\ nLastCoinStakeSearchInterval = 16
    /\ m_last_block_num_txs = -1
    /\ m_last_block_weight = -1
    /\ hashPrevBlockStatic = NullHash
    /\ nExtraNonce = 0
    /\ pc = "idle"
    /\ ba = resetBlock
    /\ call = NoCall
    /\ fPoSCancel = FALSE
    /\ ret = "none"
    /\ pre = EntryState
    /\ StakingIdle
    /\ network = "main"

SpecMinFee == InitMinFee /\ [][Next]_vars

\* The template holds the coinbase, the coinstake of a proof-of-stake call,
\* and nothing from the mempool.
NothingSelected(b) ==
    /\ b.inBlock = {}
    /\ b.nBlockTx = 0
    /\ b.nFees = 0
    /\ Len(b.vtx) = IF IsProofOfStake(b.vtx) THEN 2 ELSE 1
    /\ \A i \in 1..Len(b.vtx) : b.vtx[i].kind \in {"coinbase", "coinstake"}

\* C25: when the modified fee of every mempool transaction is below the block
\* minimum fee for its size, the template CreateNewBlock returns holds no
\* mempool transaction and the selected fees total 0.
C25_NothingAboveMinFee ==
    (/\ ret = "template"
     /\ \A h \in Txs : mempool[h].modFee < BlockMinFee(mempool[h].size))
        => NothingSelected(ba)

\* A proof-of-stake template over a mempool of transactions below the rate.
C25_StakeTemplateOnly ==
    /\ ret = "template"
    /\ \A h \in Txs : mempool[h].modFee < BlockMinFee(mempool[h].size)
    /\ \E h \in Txs : mempool[h].parents # {}
    /\ call.pwallet
    /\ Len(ba.vtx) = 2

\* C25 as stated: the fee of every mempool transaction is below the rate.
C25_NothingAboveMinFeeByFee ==
    (/\ ret = "template"
     /\ \A h \in Txs : mempool[h].fee < BlockMinFee(mempool[h].size))
        => NothingSelected(ba)

\* ------------------------------------ SpecBudget: transactions near the limit
\* Paying, final transactions without witness; the large ones weigh as much
\* as the coinbase reserve.
BudgetProfiles ==
    { [size |-> 1000, nTxWeight |-> 4000, fee |-> 1000, modFee |-> 1000, sigops |-> 4,
       nTime |-> 5, nLockTime |-> 0, witness |-> FALSE],
      [size |-> 1000, nTxWeight |-> 4000, fee |-> 3000, modFee |-> 3000, sigops |-> 4,
       nTime |-> 5, nLockTime |-> 0, witness |-> FALSE],
      [size |-> 250,  nTxWeight |-> 1000, fee |-> 2500, modFee |-> 2500, sigops |-> 4,
       nTime |-> 5, nLockTime |-> 0, witness |-> FALSE] }

BudgetMempools ==
    { [h \in Txs |-> MempoolEntry(par, pr, h)] : par \in ParentSets,
                                                 pr \in [Txs -> BudgetProfiles] }

InitBudget ==
    /\ mempool \in BudgetMempools
    /\ nBlockMaxWeight \in {ClampBlockMaxWeight(o) : o \in {12000, 24000}}
    /\ tip \in {t \in Tips : t.mtp = 20}
    /\ now = 40
    /\ searchInit = TRUE
    /\ nLastCoinStakeSearchTime = 16
    /\ nLastCoinStakeSearchInterval = 16
    /\ m_last_block_num_txs = -1
    /\ m_last_block_weight = -1
    /\ hashPrevBlockStatic = NullHash
    /\ nExtraNonce = 0
    /\ pc = "idle"
    /\ ba = resetBlock
    /\ call = NoCall
    /\ fPoSCancel = FALSE
    /\ ret = "none"
    /\ pre = EntryState
    /\ StakingIdle
    /\ network = "main"

SpecBudget == InitBudget /\ [][Next]_vars

\* The step is an iteration of the selection loop that evaluates a candidate.
EvaluatesCandidate == pc = "loop" /\ addPackageTxsRunning(ba) /\ ~SkipsEntry(ba)

\* The candidate of the iteration reaches the budget test and fails it.
FailsBudget(b) ==
    LET c == Candidate(b) IN
    /\ c.iter \notin b.inBlock
    /\ ~BelowBlockMinFee(c.packageFees, c.packageSize)
    /\ ~TestPackage(b, c.packageSize, c.packageSigOpsCost)

\* The mempool of the example: independent transactions of size 1000.
IndependentLarge == \A h \in Txs : mempool[h].parents = {} /\ mempool[h].size = 1000

\* The number of transactions of weight 4000 that fit: the block starts with
\* the coinbase reserve and must stay below nBlockMaxWeight.
LargeThatFit == Min(NumTx, ((nBlockMaxWeight - CoinbaseReservedWeight) \div 4000) - 1)

Residual(b, d, f) == SetSum(f, {d} \cup (CalculateMemPoolAncestors(d) \ b.inBlock))

\* C27: every record of mapModifiedTx holds, at every point of the selection,
\* the size, modified fees and sigops summed over its entry and the entry's
\* mempool ancestors that are not in the block.
C27_OverlayHoldsResiduals ==
    \A d \in DOMAIN ba.mapModifiedTx :
        /\ ba.mapModifiedTx[d].nSizeWithAncestors =
                Residual(ba, d, [x \in Txs |-> mempool[x].size])
        /\ ba.mapModifiedTx[d].nModFeesWithAncestors =
                Residual(ba, d, [x \in Txs |-> mempool[x].modFee])
        /\ ba.mapModifiedTx[d].nSigOpCostWithAncestors =
                Residual(ba, d, [x \in Txs |-> mempool[x].sigops])

\* A mempool for the early return: a parent that pays nothing, children that
\* pay for it, and entries at the block minimum fee rate.
StopProfiles ==
    { [size |-> 1000, nTxWeight |-> 4000, fee |-> 0,    modFee |-> 0,    sigops |-> 4,
       nTime |-> 5, nLockTime |-> 0, witness |-> FALSE],
      [size |-> 250,  nTxWeight |-> 1000, fee |-> 5000, modFee |-> 5000, sigops |-> 4,
       nTime |-> 5, nLockTime |-> 0, witness |-> FALSE],
      [size |-> 1000, nTxWeight |-> 4000, fee |-> 1000, modFee |-> 1000, sigops |-> 4,
       nTime |-> 5, nLockTime |-> 0, witness |-> FALSE] }

StopMempools ==
    { [h \in Txs |-> MempoolEntry(par, pr, h)] : par \in ParentSets,
                                                 pr \in [Txs -> StopProfiles] }

InitStop ==
    /\ mempool \in StopMempools
    /\ nBlockMaxWeight = ClampBlockMaxWeight(14000)
    /\ tip \in {t \in Tips : t.mtp = 20 /\ t.nHeight = 10}
    /\ now = 40
    /\ searchInit = TRUE
    /\ nLastCoinStakeSearchTime = 16
    /\ nLastCoinStakeSearchInterval = 16
    /\ m_last_block_num_txs = -1
    /\ m_last_block_weight = -1
    /\ hashPrevBlockStatic = NullHash
    /\ nExtraNonce = 0
    /\ pc = "idle"
    /\ ba = resetBlock
    /\ call = NoCall
    /\ fPoSCancel = FALSE
    /\ ret = "none"
    /\ pre = EntryState
    /\ StakingIdle
    /\ network = "main"

SpecStop == InitStop /\ [][Next]_vars

\* The candidates the loop has not dealt with: the records of mapModifiedTx,
\* and the entries from mi on that the walk of mapTx will not pass over.
RemainingCandidates(b) ==
    (DOMAIN b.mapModifiedTx)
    \cup {MapTxAncestorScore[i] : i \in {j \in b.mi..Len(MapTxAncestorScore) :
                                            ~SkipMapTxEntry(b, MapTxAncestorScore[j])}}

\* The candidate of the iteration is below the block minimum fee rate.
StopsOnMinFee(b) ==
    LET c == Candidate(b) IN
    /\ c.iter \notin b.inBlock
    /\ BelowBlockMinFee(c.packageFees, c.packageSize)

\* The modified fees and the size of h with its ancestors not in the block.
EffectiveFees(b, h) == Residual(b, h, [x \in Txs |-> mempool[x].modFee])
EffectiveSize(b, h) == Residual(b, h, [x \in Txs |-> mempool[x].size])

\* The figures the loop reads for h: its record of mapModifiedTx, or the
\* ancestor totals the mempool caches.
RecordedEntry(b, h) ==
    IF h \in DOMAIN b.mapModifiedTx THEN b.mapModifiedTx[h] ELSE CTxMemPoolModifiedEntry(h)

StopLeavesNoneAboveMinFee ==
    [][(EvaluatesCandidate /\ StopsOnMinFee(ba)) =>
        \A h \in RemainingCandidates(ba') \cup {Candidate(ba).iter} :
            EffectiveFees(ba', h) < BlockMinFee(EffectiveSize(ba', h))]_vars

\* ------------------ SpecCutoff: the selection after a long run of failures
\* The mempool of the model holds the entries the walk of mapTx has yet to
\* reach.  WalkedPrefix stands for the iterations over n entries ahead of
\* them in the index that are too large for the block: each is taken from
\* mapTx, fails TestPackage and leaves nothing behind but the count (it is not
\* remembered in failedTx, and nothing was added to the block).
PrefixFailures == {MAX_CONSECUTIVE_FAILURES - 1, MAX_CONSECUTIVE_FAILURES}

WalkedPrefix ==
    /\ pc = "loop"
    /\ addPackageTxsRunning(ba)
    /\ ba.mi = 1
    /\ ba.nConsecutiveFailed = 0
    /\ ba.nPackagesSelected = 0
    /\ \E n \in PrefixFailures : ba' = [ba EXCEPT !.nConsecutiveFailed = n]
    /\ UNCHANGED <<stakeVars, envVars, extVars>>
    /\ UNCHANGED <<mempool, nBlockMaxWeight, tip, now, searchInit, nLastCoinStakeSearchTime,
                   nLastCoinStakeSearchInterval, m_last_block_num_txs, m_last_block_weight,
                   hashPrevBlockStatic, nExtraNonce, pc, call, fPoSCancel, ret, pre>>

InitCutoff ==
    /\ mempool \in Mempools
    /\ nBlockMaxWeight \in {ClampBlockMaxWeight(o) : o \in {7000, 24000}}
    /\ tip \in {t \in Tips : t.mtp = 20}
    /\ now = 40
    /\ searchInit = TRUE
    /\ nLastCoinStakeSearchTime = 16
    /\ nLastCoinStakeSearchInterval = 16
    /\ m_last_block_num_txs = -1
    /\ m_last_block_weight = -1
    /\ hashPrevBlockStatic = NullHash
    /\ nExtraNonce = 0
    /\ pc = "idle"
    /\ ba = resetBlock
    /\ call = NoCall
    /\ fPoSCancel = FALSE
    /\ ret = "none"
    /\ pre = EntryState
    /\ StakingIdle
    /\ network = "main"

NextCutoff ==
    \/ CreateNewBlockEnter
    \/ WalkedPrefix
    \/ AddPackageTxsStep
    \/ CreateNewBlockLeave

SpecCutoff == InitCutoff /\ [][NextCutoff]_vars

\* The candidate of the iteration passes the fee and budget tests and fails
\* the test of finality and witness.
FailsPackageTransactions(b) ==
    LET c == Candidate(b) IN
    /\ c.iter \notin b.inBlock
    /\ ~BelowBlockMinFee(c.packageFees, c.packageSize)
    /\ TestPackage(b, c.packageSize, c.packageSigOpsCost)
    /\ ~TestPackageTransactions(b, PackageEntries(b, c.iter))

\* C29: an iteration ends the selection through the give-up test exactly when
\* its candidate fails the budget test, the failures since the last package
\* added to the block, this one counted, are more than MAX_CONSECUTIVE_FAILURES
\* and nBlockWeight is above nBlockMaxWeight - 4000; every budget failure adds
\* one to the count, an iteration that adds a package sets it to 0, and one that
\* fails the test of finality and witness leaves it as it is and goes on.
C29_GiveUpAfterFailures ==
    [][(AddPackageTxsStep /\ ~SkipsEntry(ba)) =>
        /\ FailsBudget(ba) =>
            /\ ba'.nConsecutiveFailed = ba.nConsecutiveFailed + 1
            /\ ba'.nBlockWeight = ba.nBlockWeight
            /\ ba'.loop = "done" <=>
                    /\ ba.nConsecutiveFailed + 1 > 1000
                    /\ ba.nBlockWeight > nBlockMaxWeight - 4000
        /\ ba'.nPackagesSelected # ba.nPackagesSelected =>
            ba'.nConsecutiveFailed = 0 /\ ba'.loop = "run"
        /\ FailsPackageTransactions(ba) =>
            ba'.nConsecutiveFailed = ba.nConsecutiveFailed /\ ba'.loop = "run"
        /\ (ba'.loop = "done" /\ ~StopsOnMinFee(ba)) => FailsBudget(ba)]_vars

\* C29 (witness): the selection gave up: more than MAX_CONSECUTIVE_FAILURES
\* budget failures in a row with the block within 4000 of its maximum weight.
C29_GaveUp ==
    /\ ba.loop = "done"
    /\ ba.nConsecutiveFailed > MAX_CONSECUTIVE_FAILURES
    /\ ba.nBlockWeight > nBlockMaxWeight - 4000

\* Entry h may not go into the block under construction: it is not final at
\* the block's height, or it has witness data and the block takes none.
Unfit(b, h) ==
    \/ ~(mempool[h].nLockTime = 0 \/ mempool[h].nLockTime < b.nHeight)
    \/ (mempool[h].witness /\ ~b.fIncludeWitness)

\* The mempool entries of a transaction list.
MempoolTxsOf(vtx) == {vtx[i].h : i \in {j \in 1..Len(vtx) : vtx[j].kind = "tx"}}

\* C30: no mempool transaction of the block under construction, and so none
\* of a returned template, is non-final at the block's height or has witness
\* data while fIncludeWitness is false; and an iteration whose candidate, with
\* its ancestors that are not in the block, has such a member adds nothing to
\* the block.
C30_NoUnfitTransaction ==
    /\ [](pc \in {"loop", "returned"} =>
            /\ \A h \in ba.inBlock : ~Unfit(ba, h)
            /\ MempoolTxsOf(ba.vtx) \subseteq ba.inBlock)
    /\ [][(AddPackageTxsStep /\ ~SkipsEntry(ba)
           /\ \E h \in {Candidate(ba).iter}
                        \cup (mempool[Candidate(ba).iter].ancestors \ ba.inBlock) :
                 Unfit(ba, h)) =>
            /\ ba'.inBlock = ba.inBlock
            /\ ba'.vtx = ba.vtx
            /\ ba'.nBlockTx = ba.nBlockTx
            /\ ba'.nFees = ba.nFees]_vars

\* C30 (witness): a template was returned with transactions from the mempool,
\* and a candidate that is final and has no witness data fell with a parent
\* that has witness data the block does not take; the budget was out of reach.
C30_RejectedWithParent ==
    /\ ret = "template"
    /\ ba.nBlockTx > 0
    /\ nBlockMaxWeight = 24000
    /\ \E h \in ba.failedTx :
        /\ ~Unfit(ba, h)
        /\ h \notin ba.inBlock
        /\ \E p \in mempool[h].ancestors \ ba.inBlock : Unfit(ba, p)

\* C31: a block the miner is about to hand to ProcessNewBlock has passed, in
\* this order, the wallet's signature, the kernel check and the comparison of
\* its previous block with the active tip, which it equalled; and a block
\* inside ProcessBlockFound has been signed.
C31_HandedOverAfterTests ==
    \A t \in Threads :
        /\ miners[t].pc = "check" => miners[t].passed = <<"sign">>
        /\ miners[t].pc = "handoff" =>
            /\ miners[t].passed = <<"sign", "kernel", "tip">>
            /\ miners[t].prev = miners[t].tipAtCheck

\* C31 (witness): one miner thread is about to hand its block to
\* ProcessNewBlock while the block of another failed the kernel check.
C31_HandoverAndKernelFailure ==
    \E t \in Threads, u \in Threads :
        /\ miners[t].pc = "handoff"
        /\ miners[u].found = "failed"
        /\ miners[u].passed = <<"sign">>

\* ------------ SpecLocked: CreateNewBlock among threads that change the chain
\* One CreateNewBlock call, taken step by step, while blocks are connected
\* and the mempool changes.  LOCK2(cs_main, m_mempool.cs) is one lock here:
\* the call takes both together and has both until it returns.
LockedMempools == {m \in Mempools : \A h \in Txs : m[h].parents = {} /\ ~m[h].witness}

\* Who has cs_main and m_mempool.cs after the step of CreateNewBlock that
\* leaves it inside the call (running) or returned.  The variant takes no lock.
AssemblerLockNone(running) == "free"

AssemblerLock(running) == IF running THEN "assembler" ELSE "free"

lockedIdle == <<stakeVars, envVars, nonceVars, callVars, g_best_block, fRPCRunning,
                gbtCache, gbt, gbtResponse>>

LockedEnter ==
    /\ cs_main = "free"
    /\ CreateNewBlockEnterStep
    /\ cs_main' = AssemblerLock(pc' = "loop")
    /\ UNCHANGED <<lockedIdle, nTransactionsUpdated>>

LockedLeave ==
    /\ CreateNewBlockLeaveStep
    /\ cs_main' = AssemblerLock(FALSE)
    /\ UNCHANGED <<lockedIdle, nTransactionsUpdated>>

\* A thread that has m_mempool.cs replaces one entry of the mempool
\* (a transaction is accepted in place of another).
MempoolReplaced ==
    /\ cs_main = "free"
    /\ nTransactionsUpdated < MaxUpdates
    /\ nTransactionsUpdated' = nTransactionsUpdated + 1
    /\ \E h \in Txs : \E m \in LockedMempools :
        /\ m[h] # mempool[h]
        /\ \A x \in Txs \ {h} : m[x] = mempool[x]
        /\ mempool' = m
    /\ UNCHANGED <<nBlockMaxWeight, tip, now, searchInit, nLastCoinStakeSearchTime,
                   nLastCoinStakeSearchInterval, m_last_block_num_txs, m_last_block_weight,
                   hashPrevBlockStatic, nExtraNonce, pc, ba, call, fPoSCancel, ret, pre,
                   lockedIdle, cs_main>>

InitLocked ==
    /\ mempool \in LockedMempools
    /\ nBlockMaxWeight = ClampBlockMaxWeight(24000)
    /\ tip \in {t \in Tips : t.nHeight = 10 /\ t.mtp = 20}
    /\ now = 40
    /\ searchInit = TRUE
    /\ nLastCoinStakeSearchTime = 16
    /\ nLastCoinStakeSearchInterval = 16
    /\ m_last_block_num_txs = -1
    /\ m_last_block_weight = -1
    /\ hashPrevBlockStatic = NullHash
    /\ nExtraNonce = 0
    /\ pc = "idle"
    /\ ba = resetBlock
    /\ call = NoCall
    /\ fPoSCancel = FALSE
    /\ ret = "none"
    /\ pre = EntryState
    /\ StakingIdle
    /\ network = "main"

NextLocked ==
    \/ LockedEnter
    \/ AddPackageTxsStep
    \/ LockedLeave
    \/ BlockConnected
    \/ MempoolReplaced

SpecLocked == InitLocked /\ [][NextLocked]_vars

\* The template b agrees with tip t and mempool m: the previous block, the
\* height, the witness rule and the lock-time cutoff are t's, every
\* transaction taken from the mempool is m's entry and final at the height,
\* and the fees are the sum of m's fees for them.
TemplateOf(b, t, m) ==
    /\ b.hashPrevBlock = t.hash
    /\ b.nHeight = t.nHeight + 1
    /\ b.coinbaseTx.scriptSig = <<t.nHeight + 1, 0>>
    /\ b.fIncludeWitness = t.segwit
    /\ b.nLockTimeCutoff = t.mtp
    /\ \A i \in 1..Len(b.vtx) :
        b.vtx[i].kind = "tx" =>
            LET h == b.vtx[i].h IN
            /\ b.vtx[i].nTime = m[h].nTime
            /\ (m[h].nLockTime = 0 \/ m[h].nLockTime < t.nHeight + 1)
    /\ b.nFees = SetSum([x \in Txs |-> m[x].fee], MempoolTxsOf(b.vtx))
    /\ b.nBlockSigOpsCost =
            CoinbaseReservedSigOps + SetSum([x \in Txs |-> m[x].sigops], MempoolTxsOf(b.vtx))

\* C32: from the step of CreateNewBlock that reads the tip to its return no
\* step changes the active tip or the mempool, and the template returned
\* agrees with the tip and the mempool of that moment, which are those the
\* call began with.
C32_OneConsistentState ==
    /\ [][pc = "loop" => (tip' = tip /\ mempool' = mempool)]_vars
    /\ [][(pc = "loop" /\ pc' = "returned") => TemplateOf(ba', tip', mempool')]_vars

\* C32 (witness): a template with a transaction of the mempool was returned
\* after a block was connected and the mempool changed.
C32_TemplateAfterChanges ==
    /\ pc = "returned"
    /\ ret = "template"
    /\ ba.nBlockTx > 0
    /\ tip.nHeight = 11
    /\ nTransactionsUpdated > 0

\* ---- C33: the flag and the miner thread

\* C33 as stated: while fEnableStaking is set and the node is not shutting
\* down, a miner thread is running; a miner that has returned for a reason
\* other than the cleared flag is brought up again by a later start request.
C33_MinerWhileEnabled ==
    (fEnableStaking /\ ~fShutdown /\ ~terminated) => LiveMiners # {}

\* ---- C34: the per-transaction sequences of a template

\* C34 as stated: in every template CreateNewBlock returns, with or without a
\* wallet, vtx, vTxFees and vTxSigOpsCost have the same length, and the fee
\* and the sigop cost at the index of a mempool transaction are its own.
C34_AlignedSequences ==
    (pc = "returned" /\ ret = "template") =>
        /\ Len(ba.vTxFees) = Len(ba.vtx)
        /\ Len(ba.vTxSigOpsCost) = Len(ba.vtx)
        /\ \A i \in 1..Len(ba.vtx) :
            ba.vtx[i].kind = "tx" =>
                /\ ba.vTxFees[i] = mempool[ba.vtx[i].h].fee
                /\ ba.vTxSigOpsCost[i] = mempool[ba.vtx[i].h].sigops

\* ---- C35: the height IncrementExtraNonce writes

\* The height of the block with hash h.
HeightOf(h) == h[2]

\* C35 as stated: in every block that went through IncrementExtraNonce the
\* height in the coinbase scriptSig is the height of the block's prev block
\* plus one, whatever happened to the tip since the template was built.
C35_CoinbaseHeightFollowsPrev ==
    \A c \in Callers :
        callers[c].pc = "called" =>
            callers[c].pblock.coinbaseTx.scriptSig[1]
                = HeightOf(callers[c].pblock.hashPrevBlock) + 1

\* ---- C37: the result of a call with a wallet

\* C37: a CreateNewBlock call with a wallet either returns a template or
\* returns nullptr, and it returns nullptr exactly when *pfPoSCancel is true
\* on return; a template it returns has the proof-of-stake flag and its second
\* transaction is the coinstake.
C37_TemplateOrCancel ==
    (call.pwallet /\ ret # "none") =>
        /\ ret \in {"null", "template"}
        /\ (ret = "null") <=> fPoSCancel
        /\ ret = "template" => (ba.nFlags = "pos" /\ IsProofOfStake(ba.vtx))

\* C37 (witness): a call with a wallet returned a template with mempool
\* transactions and left *pfPoSCancel false.
C37_StakeTemplateReturned ==
    /\ call.pwallet
    /\ ret = "template"
    /\ ~fPoSCancel
    /\ ba.vtx[2].kind = "coinstake"
    /\ ba.nBlockTx > 1

\* ---- C38: the coinstake search statics across calls

\* A step of SpecCNB that is a call of CreateNewBlock: the clock stands and
\* IncrementExtraNonce has not run.
WholeCall == now' = now /\ pc' # "extranonce"

\* C38: the stored last search time never decreases.  A call with a wallet
\* whose masked time is above it searches: it stores the masked time and a
\* positive interval, the difference of the two.  Any other call with a wallet
\* writes neither static and returns no template, CreateCoinStake not having
\* been asked.  A masked timestamp that was searched is the stored time, so it
\* is not searched again.
C38_SearchOncePerTimestamp ==
    /\ [][searchInit => nLastCoinStakeSearchTime' >= nLastCoinStakeSearchTime]_vars
    /\ [][(WholeCall /\ call'.pwallet) =>
            LET last == LastCoinStakeSearchTime
                t == MaskTime(now)
            IN IF t > last
               THEN /\ nLastCoinStakeSearchTime' = t
                    /\ nLastCoinStakeSearchInterval' = t - last
                    /\ nLastCoinStakeSearchInterval' > 0
               ELSE /\ nLastCoinStakeSearchTime' = last
                    /\ nLastCoinStakeSearchInterval' = nLastCoinStakeSearchInterval
                    /\ ret' = "null"]_vars

\* C38 (witness): a call with a wallet found its masked timestamp searched by
\* an earlier call, and returned without a search.
C38_SecondCallSameTimestamp ==
    /\ call.pwallet
    /\ call.found
    /\ pre.now = now
    /\ pre.state.nLastCoinStakeSearchTime = MaskTime(now)
    /\ pre.state.nLastCoinStakeSearchInterval > 0
    /\ nLastCoinStakeSearchInterval = pre.state.nLastCoinStakeSearchInterval
    /\ ret = "null"

\* ---- C39: the selection loop ends

\* The iterations of the selection loop are taken one after the other until
\* the loop condition fails: the thread that runs CreateNewBlock is scheduled.
\* This is WF_vars(AddPackageTxsStep) written out.  The step is enabled while
\* the loop condition holds, and the steps of Spec that keep pc = "loop" and
\* change ba are the iterations.
LoopIterates == pc = "loop" /\ pc' = "loop"
LoopFairness ==
    \/ []<>(~(pc = "loop" /\ addPackageTxsRunning(ba)))
    \/ []<><<LoopIterates>>_ba

SpecLoopFair == Spec /\ LoopFairness

\* What one iteration did: it moved on in mapTx, it erased a record of
\* mapModifiedTx, it inserted one, it added to inBlock.
AdvancesIterator == ba'.mi > ba.mi
ErasesRecord == (DOMAIN ba.mapModifiedTx) \ (DOMAIN ba'.mapModifiedTx) # {}
InsertsRecord == (DOMAIN ba'.mapModifiedTx) \ (DOMAIN ba.mapModifiedTx) # {}
AddsToBlock == ba.inBlock \subseteq ba'.inBlock /\ ba'.inBlock # ba.inBlock

\* The work left: the mempool entries not in the block, then the entries of
\* mapTx not yet visited and the records of mapModifiedTx.
LeftOutside(b) == NumTx - Cardinality(b.inBlock)
LeftToVisit(b) ==
    (Len(MapTxAncestorScore) + 1 - b.mi) + Cardinality(DOMAIN b.mapModifiedTx)

\* C39: addPackageTxs terminates.  An iteration that does not end the loop
\* advances the iterator of mapTx, erases a record of mapModifiedTx or adds a
\* transaction to inBlock; records are inserted only by an iteration that
\* adds to inBlock; so each iteration leaves fewer entries outside the block,
\* or as many and less to visit; and a loop that runs comes to its end.
C39_LoopTerminates ==
    /\ [][AddPackageTxsStep =>
            /\ ba'.loop = "run" => (AdvancesIterator \/ ErasesRecord \/ AddsToBlock)
            /\ InsertsRecord => AddsToBlock
            /\ \/ LeftOutside(ba') < LeftOutside(ba)
               \/ /\ LeftOutside(ba') = LeftOutside(ba)
                  /\ ba'.loop = "run" => LeftToVisit(ba') < LeftToVisit(ba)
            /\ LeftOutside(ba') >= 0
            /\ LeftToVisit(ba') >= 0]_vars
    /\ (pc = "loop") ~> (pc = "loop" /\ ~addPackageTxsRunning(ba))

\* C39 (witness): the loop came to its end after it had committed two
\* packages and a candidate taken from mapModifiedTx had failed.
C39_EndedAfterReinsertion ==
    /\ pc = "loop"
    /\ ~addPackageTxsRunning(ba)
    /\ ba.nPackagesSelected > 1
    /\ ba.failedTx # {}

\* ---- C40: no transaction is selected twice

\* The handles of the mempool transactions at positions 1..n of vtx.
HandlesUpTo(vtx, n) == {vtx[i].h : i \in {j \in 1..n : vtx[j].kind = "tx"}}

\* C40: the candidate of an iteration is not in inBlock, so the assertion of
\* addPackageTxs holds; mapModifiedTx has no record of a transaction that is
\* in inBlock; and no mempool transaction is twice in the block.
C40_NoTransactionTwice ==
    /\ [](pc \in {"loop", "returned"} =>
            /\ ba.loop # "assert"
            /\ (DOMAIN ba.mapModifiedTx) \cap ba.inBlock = {}
            /\ \A i \in 1..Len(ba.vtx) :
                ba.vtx[i].kind = "tx" => ba.vtx[i].h \notin HandlesUpTo(ba.vtx, i - 1)
            /\ MempoolTxsOf(ba.vtx) = ba.inBlock)
    /\ [][(AddPackageTxsStep /\ ~SkipsEntry(ba)) => Candidate(ba).iter \notin ba.inBlock]_vars

\* C40 (witness): an iteration passed over an entry of mapTx that an earlier
\* iteration had added to the block as an ancestor, and the template with
\* every transaction of the mempool was returned.
C40_AncestorPassedOver ==
    /\ pc = "returned"
    /\ ret = "template"
    /\ ba.inBlock = Txs
    /\ ba.nPackagesSelected < NumTx

====
